---- MODULE Spec2Model ----
(***************************************************************************)
(* A model of the software rasterizer: barycentric(), triangle() and the   *)
(* homogeneous clipper of geometry.h, driven the way the pipeline in the   *)
(* main program drives them.                                               *)
(*                                                                         *)
(* Floats are modelled as exact rationals <<n, d>> with d > 0, reduced to  *)
(* lowest terms, together with the three IEEE specials                     *)
(*     <<1, 0>> = +inf      <<-1, 0>> = -inf      <<0, 0>> = NaN           *)
(* Rounding and signed zeros are not modelled: every input of the model is *)
(* a small dyadic rational on which the float operations of the source are *)
(* exact.  Vectors are tuples; the source's index i is the tuple's i + 1.  *)
(***************************************************************************)
EXTENDS Integers, Sequences, FiniteSets, TLC

VARIABLES
    colorBuffer,   \* Vec3f *colorBuffer : slot index -> colour
    zBuffer,       \* float *zBuffer     : slot index -> depth
    cntSample,     \* samples per pixel of the buffers (1 or CNT_SAMPLE)
    calls,         \* the triangle() calls made so far, in order
    fragCount,     \* last call: pixel -> number of shader.fragment invocations
    written,       \* last call: the slot indices it assigned
    touched,       \* last call: the <<x, y, i, idx>> whose slot it read or wrote
    visited,       \* last call: the pixels its two for loops ran over
    baryIn,        \* arguments of a barycentric() call
    baryOut,       \* its result, or <<>> before the call
    clipIn,        \* arguments of a homogeneousClip() call
    clipOut,       \* [done, result]: whether it has run, and its result vector
    shadowIn,      \* Shader::fragment's shadow step: [buf, pos], the shadow buffer
                   \* and the fragment's lightSpacePos
    shadowOut,     \* [done, shadow, cnt, reads, taps]: its shadow factor, its
                   \* sample count, the shadow buffer indices it read and the
                   \* taps <<dx, dy>> that incremented the in-shadow counter
    matIn,         \* a square mat<n, n, float>: its rows
    matOut,        \* [done, det, adj, tmp, inv]: its det(), adjugate(), the
                   \* divisor of invert_transpose() and invert()
    texIn,         \* [img, uv]: a texture map of a Model and the uv sampled
    texOut,        \* [done, diffuse, normal, specular]: what Model::diffuse,
                   \* Model::normal and Model::specular return for it
    faces,         \* the faces of the models of a frame, in order: [front, size],
                   \* whether the face normal has n.z > 0 in camera space and how
                   \* many vertices homogeneousClip returns for the face
    frame,         \* the position in main's two passes: [pass, face, step, j,
                   \* culled, clipped, log, varying, written, ready, wrote,
                   \* uniform]; log holds one entry per triangle() call, varying
                   \* and uniform are the state of the pass's shader, ready and
                   \* wrote tell which buffers are filled and how often written
    rleIn,         \* [width, height, bytespp, stream, missing]: an image whose
                   \* header was read and the RLE packets that follow it in the
                   \* file: the header byte of each packet, and how many
                   \* pixels of data the file lacks at its end
    rle            \* TGAImage::load_rle_data: [pc, next, currentpixel,
                   \* currentbyte, data, stray]; data[b] is the packet that
                   \* wrote byte b - 1 (0: none), stray the positions written
                   \* that lie outside data

vars == <<colorBuffer, zBuffer, cntSample, calls, fragCount, written, touched,
          visited, baryIn, baryOut, clipIn, clipOut, shadowIn, shadowOut,
          matIn, matOut, texIn, texOut, faces, frame, rleIn, rle>>

rasterVars == <<colorBuffer, zBuffer, cntSample, calls, fragCount, written, touched,
               visited>>
baryVars == <<baryIn, baryOut>>
clipVars == <<clipIn, clipOut>>
shadowVars == <<shadowIn, shadowOut>>

\* the variables of the steps modelled after the clipper
matVars == <<matIn, matOut>>
texVars == <<texIn, texOut>>
frameVars == <<faces, frame>>
rleVars == <<rleIn, rle>>
restVars == <<shadowVars, matVars, texVars, frameVars, rleVars>>

---------------------------------------------------------------------------
(* float arithmetic                                                        *)

Sign(n) == IF n > 0 THEN 1 ELSE IF n < 0 THEN -1 ELSE 0

AbsInt(n) == IF n < 0 THEN -n ELSE n

RECURSIVE Gcd(_, _)
Gcd(a, b) == IF b = 0 THEN a ELSE Gcd(b, a % b)

\* the float with value n / d (d = 0 gives the specials)
Norm(n, d) ==
    IF d = 0 THEN <<Sign(n), 0>>
    ELSE LET g == Gcd(AbsInt(n), AbsInt(d))
             s == Sign(d)
         IN  <<(s * n) \div g, (s * d) \div g>>

F(n) == <<n, 1>>
Q(n, d) == Norm(n, d)

NaN == <<0, 0>>
PosInf == <<1, 0>>
NegInf == <<-1, 0>>

IsNaN(x) == x = NaN
IsInf(x) == x[2] = 0 /\ x[1] # 0
IsFinite(x) == x[2] > 0

FNeg(x) == <<-x[1], x[2]>>

FAdd(x, y) ==
    IF IsNaN(x) \/ IsNaN(y) THEN NaN
    ELSE IF IsInf(x) THEN (IF IsInf(y) /\ y # x THEN NaN ELSE x)
    ELSE IF IsInf(y) THEN y
    ELSE LET g == Gcd(x[2], y[2])
         IN  Norm(x[1] * (y[2] \div g) + y[1] * (x[2] \div g), x[2] * (y[2] \div g))

FSub(x, y) == FAdd(x, FNeg(y))

FMul(x, y) == Norm(x[1] * y[1], x[2] * y[2])

FDiv(x, y) ==
    IF IsNaN(x) \/ IsNaN(y) THEN NaN
    ELSE IF IsInf(y) THEN (IF IsInf(x) THEN NaN ELSE F(0))
    ELSE IF y[1] = 0 THEN <<Sign(x[1]), 0>>
    ELSE IF IsInf(x) THEN <<x[1] * Sign(y[1]), 0>>
    ELSE Norm(x[1] * y[2], x[2] * y[1])

\* -1, 0, 1 for -inf, a finite value, +inf
Rank(x) == IF x[2] = 0 THEN x[1] ELSE 0

\* x < y ; false when either side is NaN
FLess(x, y) ==
    /\ ~IsNaN(x)
    /\ ~IsNaN(y)
    /\ IF IsFinite(x) /\ IsFinite(y)
       THEN x[1] * y[2] < y[1] * x[2]
       ELSE Rank(x) < Rank(y)

\* x <= y ; false when either side is NaN
FLeq(x, y) == ~IsNaN(x) /\ ~IsNaN(y) /\ ~FLess(y, x)

FAbs(x) == <<AbsInt(x[1]), x[2]>>

\* int(x) : truncation toward zero
FInt(x) == Sign(x[1]) * (AbsInt(x[1]) \div x[2])

MinInt(a, b) == IF a < b THEN a ELSE b
MaxInt(a, b) == IF a > b THEN a ELSE b

\* cross(v1, v2) of two 3-vectors
cross(v1, v2) ==
    << FSub(FMul(v1[2], v2[3]), FMul(v1[3], v2[2])),
       FSub(FMul(v1[3], v2[1]), FMul(v1[1], v2[3])),
       FSub(FMul(v1[1], v2[2]), FMul(v1[2], v2[1])) >>

---------------------------------------------------------------------------
(* barycentric                                                             *)

\* variant: the guard never fires
NearZeroNever(uz) == FALSE

\* the guard of barycentric(): fabs(u.z) < 1e-5
NearZero(uz) == FLess(FAbs(uz), Q(1, 100000))

\* variant: the weights of B and C exchanged
barycentricSwapped(A, B, C, P) ==
    LET t == [i \in 1..2 |-> << FSub(B[i], A[i]), FSub(C[i], A[i]), FSub(A[i], P[i]) >>]
        u == cross(t[1], t[2])
    IN  IF NearZero(u[3]) THEN << F(-1), F(0), F(0) >>
        ELSE << FSub(F(1), FDiv(FAdd(u[1], u[2]), u[3])),
                FDiv(u[2], u[3]),
                FDiv(u[1], u[3]) >>

barycentric(A, B, C, P) ==
    LET t == [i \in 1..2 |-> << FSub(B[i], A[i]), FSub(C[i], A[i]), FSub(A[i], P[i]) >>]
        u == cross(t[1], t[2])
    IN  IF NearZero(u[3]) THEN << F(-1), F(0), F(0) >>
        ELSE << FSub(F(1), FDiv(FAdd(u[1], u[2]), u[3])),
                FDiv(u[1], u[3]),
                FDiv(u[2], u[3]) >>

---------------------------------------------------------------------------
(* the raster, the sample tables and the triangle() inputs                 *)

Width == 3            \* unsigned width  (SCREEN_WIDTH / SHADOW_WIDTH)
Height == 2           \* unsigned height (SCREEN_HEIGHT / SHADOW_HEIGHT)
MaxCalls == 2         \* triangle() calls in one run of the model

CNT_SAMPLE == 4

D_MSAA == << <<Q(1, 4), Q(1, 4)>>, <<Q(1, 4), Q(3, 4)>>,
             <<Q(3, 4), Q(1, 4)>>, <<Q(3, 4), Q(3, 4)>> >>

D_NonMSAA == << <<F(0), F(0)>> >>

\* the table a caller passes with cntSample = cs
SampleTable(cs) == IF cs = 1 THEN D_NonMSAA ELSE D_MSAA

\* std::numeric_limits<float>::max(), scaled down to the model's values
FltMax == 1000000

\* the depth main() fills the buffers with
Sentinel == F(-FltMax)

\* the colour main() fills the buffers with: Vec3f(0, 0, 0)
Black == 0

Pixels == (0..(Width - 1)) \X (0..(Height - 1))

Slots(cs) == 0..(Width * Height * cs - 1)

\* 2D screen positions of the triangles the model rasterizes
Shapes ==
    [ big   |-> << <<F(0), F(0)>>, <<F(4), F(0)>>, <<F(0), F(4)>> >>,
      half  |-> << <<F(0), F(0)>>, <<F(2), F(0)>>, <<F(0), F(2)>> >>,
      part  |-> << <<Q(-3, 2), Q(-1, 2)>>, <<F(5), Q(1, 2)>>, <<F(1), F(3)>> >>,
      line  |-> << <<F(0), F(0)>>, <<F(1), F(1)>>, <<F(2), F(2)>> >>,
      point |-> << <<F(1), F(1)>>, <<F(1), F(1)>>, <<F(1), F(1)>> >>,
      out   |-> << <<F(5), F(5)>>, <<F(7), F(5)>>, <<F(5), F(7)>> >>,
      tiny  |-> << <<F(1), F(1)>>, <<Q(513, 512), F(1)>>, <<F(1), Q(513, 512)>> >>,
      small |-> << <<Q(5, 4), Q(5, 4)>>, <<Q(11, 8), Q(5, 4)>>, <<Q(5, 4), Q(11, 8)>> >>,
      corner |-> << <<F(1), F(1)>>, <<Q(5, 4), F(1)>>, <<F(1), Q(5, 4)>> >> ]

\* z and w of the three vertices.  DepthShader::vertex returns w = 1;
\* Shader::vertex returns z = z_ndc / w_clip and w = 1 / w_clip, and every
\* vertex that survives the z clip has w_clip < 0.
Profiles ==
    [ far   |-> [z |-> << Q(1, 2), Q(1, 2), Q(1, 2) >>, w |-> << F(1), F(1), F(1) >>],
      near  |-> [z |-> << Q(9, 10), Q(9, 10), Q(9, 10) >>, w |-> << F(1), F(1), F(1) >>],
      persp |-> [z |-> << Q(-1, 4), Q(-1, 2), Q(-1, 2) >>,
                 w |-> << F(-1), Q(-1, 2), F(-1) >>],
      edge  |-> [z |-> << F(1), F(1), F(1) >>, w |-> << F(-14), F(30), F(54) >>] ]

\* screenCoords[3] of a shape with a depth profile
ScreenCoords(shape, profile) ==
    [i \in 1..3 |-> << Shapes[shape][i][1], Shapes[shape][i][2],
                       Profiles[profile].z[i], Profiles[profile].w[i] >>]

\* an IShader: the depth-only shader, the Phong shader, and an implementation
\* whose fragment stage always discards; col is the colour fragment() returns
Mk(shape, profile, kind, col) ==
    [shape |-> shape, profile |-> profile, kind |-> kind, col |-> col]

TriInputs ==
    << Mk("big", "far", "depth", 1),     Mk("big", "near", "phong", 2),
       Mk("big", "persp", "phong", 3),   Mk("half", "far", "phong", 4),
       Mk("half", "near", "depth", 5),   Mk("half", "persp", "depth", 6),
       Mk("part", "far", "depth", 7),    Mk("part", "near", "phong", 8),
       Mk("part", "persp", "phong", 9),  Mk("line", "near", "depth", 10),
       Mk("point", "near", "depth", 11), Mk("out", "near", "depth", 12),
       Mk("tiny", "near", "depth", 13),  Mk("small", "persp", "phong", 14),
       Mk("corner", "persp", "phong", 15), Mk("big", "near", "reject", 16),
       Mk("half", "far", "reject", 17), Mk("big", "edge", "phong", 18) >>

InputIds == 1..Len(TriInputs)

ScOf(k) == ScreenCoords(TriInputs[k].shape, TriInputs[k].profile)

---------------------------------------------------------------------------
(* triangle()                                                              *)

\* variant: the box is not clamped to the raster's far edges
BBoxUnclamped(sc, width, height) ==
    LET lim == << width - 1, height - 1 >>
        lo == [j \in 1..2 |->
                 MinInt(MinInt(MinInt(lim[j], FInt(sc[1][j])), FInt(sc[2][j])),
                        FInt(sc[3][j]))]
        hi == [j \in 1..2 |->
                 MaxInt(MaxInt(MaxInt(0, FInt(sc[1][j])), FInt(sc[2][j])),
                        FInt(sc[3][j]))]
    IN  << << MaxInt(0, lo[1]), MaxInt(0, lo[2]) >>, << hi[1], hi[2] >> >>

\* the bounding box of the triangle, clamped to the raster:
\* [1] = bboxmin, [2] = bboxmax, each <<x, y>>
BBox(sc, width, height) ==
    LET lim == << width - 1, height - 1 >>
        lo == [j \in 1..2 |->
                 MinInt(MinInt(MinInt(lim[j], FInt(sc[1][j])), FInt(sc[2][j])),
                        FInt(sc[3][j]))]
        hi == [j \in 1..2 |->
                 MaxInt(MaxInt(MaxInt(0, FInt(sc[1][j])), FInt(sc[2][j])),
                        FInt(sc[3][j]))]
    IN  << << MaxInt(0, lo[1]), MaxInt(0, lo[2]) >>,
           << MinInt(lim[1], hi[1]), MinInt(lim[2], hi[2]) >> >>

\* the pixels the two for loops of triangle() visit
BoxPixels(sc, width, height) ==
    LET b == BBox(sc, width, height)
    IN  { p \in (b[1][1]..b[2][1]) \X (b[1][2]..b[2][2]) : TRUE }

\* variant: the row stride is the height
SlotIndexByHeight(cs, width, x, y, i) == cs * (y * Height + x) + i

\* unsigned idx = cntSample * (y*width + x) + i
SlotIndex(cs, width, x, y, i) == cs * (y * width + x) + i

\* a * bar.x + b * bar.y + c * bar.z
Interp(a, b, c, bar) ==
    FAdd(FAdd(FMul(a, bar[1]), FMul(b, bar[2])), FMul(c, bar[3]))

\* the perspective-corrected z of a sample whose weights are barSample
SampleAt(sc, barSample) ==
    [bar |-> barSample,
     z |-> FMul(Interp(sc[1][3], sc[2][3], sc[3][3], barSample),
                FDiv(F(1), Interp(sc[1][4], sc[2][4], sc[3][4], barSample)))]

\* barSample and the perspective-corrected z of sample i of pixel (x, y)
SampleOf(sc, d, x, y, i) ==
    SampleAt(sc, barycentric(<< sc[1][1], sc[1][2] >>, << sc[2][1], sc[2][2] >>,
                             << sc[3][1], sc[3][2] >>,
                             << FAdd(F(x), d[i + 1][1]), FAdd(F(y), d[i + 1][2]) >>))

\* barMiddle of pixel (x, y)
MiddleOf(sc, x, y) ==
    barycentric(<< sc[1][1], sc[1][2] >>, << sc[2][1], sc[2][2] >>,
                << sc[3][1], sc[3][2] >>,
                << FAdd(F(x), Q(1, 2)), FAdd(F(y), Q(1, 2)) >>)

\* float w = (vScreenCoords * bar)[3] of Shader::fragment
ReciprocalW(sc, bar) == Interp(sc[1][4], sc[2][4], sc[3][4], bar)

\* variant: the guard is missing
GuardFiresNever(w) == FALSE

\* the guard of Shader::fragment: fabs(w) < 1e-7
GuardFires(w) == FLess(FAbs(w), Q(1, 10000000))

\* shader.fragment(bar, color): the value it returns.  vScreenCoords holds the
\* screenCoords the vertex stage returned for this triangle.
Fragment(kind, sc, bar) ==
    CASE kind = "depth" -> TRUE
      [] kind = "phong" -> ~GuardFires(ReciprocalW(sc, bar))
      [] kind = "reject" -> FALSE

\* the per-sample and per-pixel values of input k on a cs-sample raster
GeomOf(k, cs) ==
    [smp |-> [q \in Pixels \X (0..(cs - 1)) |->
                SampleOf(ScOf(k), SampleTable(cs), q[1][1], q[1][2], q[2])],
     frag |-> [p \in Pixels |->
                Fragment(TriInputs[k].kind, ScOf(k), MiddleOf(ScOf(k), p[1], p[2]))],
     box |-> BoxPixels(ScOf(k), Width, Height)]

\* a table as an explicit function (the comparison enumerates it)
Explicit(g) == IF g = g THEN g ELSE g

\* GeomOf tabulated, so that it is computed once
Geom == Explicit([k \in InputIds |-> [cs \in {1, CNT_SAMPLE} |-> GeomOf(k, cs)]])

\* barSample and z of sample i of pixel (x, y) of input k
SmpAt(k, cs, x, y, i) ==
    IF <<x, y>> \in Pixels THEN Geom[k][cs].smp[<< <<x, y>>, i >>]
    ELSE SampleOf(ScOf(k), SampleTable(cs), x, y, i)

\* what shader.fragment returns at the centre of pixel (x, y) of input k
FragAt(k, cs, x, y) ==
    IF <<x, y>> \in Pixels THEN Geom[k][cs].frag[<<x, y>>]
    ELSE Fragment(TriInputs[k].kind, ScOf(k), MiddleOf(ScOf(k), x, y))

\* zBuffer[idx]; triangle() keeps idx inside the buffer (see touched)
ZRead(zb, idx) == IF idx \in DOMAIN zb THEN zb[idx] ELSE Sentinel

\* variant: an equal depth is rejected too
DepthRejectStrict(z, stored) == FLeq(z, stored)

\* variant: the comparison reversed
DepthRejectReversed(z, stored) == FLess(stored, z)

\* variant: no depth test
DepthRejectNever(z, stored) == FALSE

\* the depth half of the test at line 522: z < zBuffer[idx]
DepthReject(z, stored) == FLess(z, stored)

\* the coverage half: barSample.x < 0 || barSample.y < 0 || barSample.z < 0
BarReject(bar) == FLess(bar[1], F(0)) \/ FLess(bar[2], F(0)) \/ FLess(bar[3], F(0))

\* the state of the sample loop of one pixel
LoopInit == [covered |-> FALSE, frags |-> 0, writes |-> {}, touched |-> {}]

\* idx joins the slots the call has read
Touch(st, x, y, i, idx) == [st EXCEPT !.touched = @ \cup {<<x, y, i, idx>>}]

\* colorBuffer[idx] = color; zBuffer[idx] = z, the ord-th store of the call
Store(st, idx, z, ord) ==
    [st EXCEPT !.writes = @ \cup {[idx |-> idx, z |-> z, ord |-> ord]}]

\* the place of sample i of pixel (x, y) in the order of the loops
OrdOf(cs, x, y, i) == (x * Height + y) * cs + i

RECURSIVE SampleLoop(_, _, _, _, _, _, _)

\* variant: covered is never set, the fragment stage runs for every sample
SampleStepNoFlag(k, cs, zb, x, y, i, st, s, idx) ==
    IF BarReject(s.bar) THEN SampleLoop(k, cs, zb, x, y, i + 1, st)
    ELSE IF DepthReject(s.z, ZRead(zb, idx))
         THEN SampleLoop(k, cs, zb, x, y, i + 1, Touch(st, x, y, i, idx))
    ELSE IF ~FragAt(k, cs, x, y)
         THEN [Touch(st, x, y, i, idx) EXCEPT !.frags = @ + 1]
         ELSE SampleLoop(k, cs, zb, x, y, i + 1,
                         [Store(Touch(st, x, y, i, idx), idx, s.z, OrdOf(cs, x, y, i))
                            EXCEPT !.frags = @ + 1])

\* variant: the sample is stored before the fragment stage is asked
SampleStepWriteFirst(k, cs, zb, x, y, i, st, s, idx) ==
    IF BarReject(s.bar) THEN SampleLoop(k, cs, zb, x, y, i + 1, st)
    ELSE IF DepthReject(s.z, ZRead(zb, idx))
         THEN SampleLoop(k, cs, zb, x, y, i + 1, Touch(st, x, y, i, idx))
    ELSE IF ~st.covered
         THEN IF ~FragAt(k, cs, x, y)
              THEN [Store(Touch(st, x, y, i, idx), idx, s.z, OrdOf(cs, x, y, i))
                      EXCEPT !.frags = @ + 1]
              ELSE SampleLoop(k, cs, zb, x, y, i + 1,
                              [Store(Touch(st, x, y, i, idx), idx, s.z, OrdOf(cs, x, y, i))
                                 EXCEPT !.covered = TRUE, !.frags = @ + 1])
    ELSE SampleLoop(k, cs, zb, x, y, i + 1,
                    Store(Touch(st, x, y, i, idx), idx, s.z, OrdOf(cs, x, y, i)))

\* the body of the sample loop for sample i of pixel (x, y): s is its
\* barSample and z, idx its slot
SampleStep(k, cs, zb, x, y, i, st, s, idx) ==
    IF BarReject(s.bar) THEN SampleLoop(k, cs, zb, x, y, i + 1, st)
    ELSE IF DepthReject(s.z, ZRead(zb, idx))
         THEN SampleLoop(k, cs, zb, x, y, i + 1, Touch(st, x, y, i, idx))
    ELSE IF ~st.covered
         THEN IF ~FragAt(k, cs, x, y)
              THEN [Touch(st, x, y, i, idx) EXCEPT !.frags = @ + 1]
              ELSE SampleLoop(k, cs, zb, x, y, i + 1,
                              [Store(Touch(st, x, y, i, idx), idx, s.z, OrdOf(cs, x, y, i))
                                 EXCEPT !.covered = TRUE, !.frags = @ + 1])
    ELSE SampleLoop(k, cs, zb, x, y, i + 1,
                    Store(Touch(st, x, y, i, idx), idx, s.z, OrdOf(cs, x, y, i)))

\* the for loop over the samples of pixel (x, y), from sample i on
SampleLoop(k, cs, zb, x, y, i, st) ==
    IF i >= cs THEN st
    ELSE SampleStep(k, cs, zb, x, y, i, st,
                    SmpAt(k, cs, x, y, i), SlotIndex(cs, Width, x, y, i))

\* the sample loops of the pixels of the box
PixelRuns(k, cs, zb, box) ==
    [p \in box |-> SampleLoop(k, cs, zb, p[1], p[2], 0, LoopInit)]

\* every store the call made
WritesOf(res) == UNION {res[p].writes : p \in DOMAIN res}

\* the last store the call made to slot idx
LastWrite(writes, idx) ==
    CHOOSE w \in writes :
       w.idx = idx /\ \A v \in writes : v.idx = idx => v.ord <= w.ord

\* variant: the stores write the depth and leave the colour
CommitDepthOnly(k, cb, zb, res, writes) ==
    [color |-> cb,
     z |-> [idx \in DOMAIN zb |->
              IF \E w \in writes : w.idx = idx THEN LastWrite(writes, idx).z ELSE zb[idx]],
     frags |-> [p \in Pixels \cup DOMAIN res |->
                  IF p \in DOMAIN res THEN res[p].frags ELSE 0],
     visited |-> DOMAIN res,
     written |-> {w.idx : w \in writes},
     touched |-> UNION {res[p].touched : p \in DOMAIN res}]

\* the buffers after the stores, and what the call did
Commit(k, cb, zb, res, writes) ==
    [color |-> [idx \in DOMAIN cb |->
                  IF \E w \in writes : w.idx = idx THEN TriInputs[k].col ELSE cb[idx]],
     z |-> [idx \in DOMAIN zb |->
              IF \E w \in writes : w.idx = idx THEN LastWrite(writes, idx).z ELSE zb[idx]],
     frags |-> [p \in Pixels \cup DOMAIN res |->
                  IF p \in DOMAIN res THEN res[p].frags ELSE 0],
     visited |-> DOMAIN res,
     written |-> {w.idx : w \in writes},
     touched |-> UNION {res[p].touched : p \in DOMAIN res}]

\* triangle() once the pixel loops have run
CommitRuns(k, cb, zb, res) == Commit(k, cb, zb, res, WritesOf(res))

\* one triangle() call with input k on buffers cb, zb of cs samples per pixel
triangle(k, cb, zb, cs) ==
    CommitRuns(k, cb, zb, PixelRuns(k, cs, zb, Geom[k][cs].box))

---------------------------------------------------------------------------
(* the rasterizer as a state machine                                       *)

NoFrags == [p \in Pixels |-> 0]

IdleBary == [A |-> <<F(0), F(0)>>, B |-> <<F(0), F(0)>>, C |-> <<F(0), F(0)>>,
             P |-> <<F(0), F(0)>>]

IdleClip == [original |-> <<>>, axis |-> 2]

NoClip == [done |-> FALSE, result |-> <<>>]

IdleShadow == [scene |-> <<>>, buf |-> <<>>, pos |-> << F(0), F(0), F(0) >>]

NoShadow == [done |-> FALSE, shadow |-> F(0), cnt |-> 0, reads |-> {}, taps |-> {}]

\* the shadow step has not been entered
ShadowIdle == shadowIn = IdleShadow /\ shadowOut = NoShadow

\* none of the steps modelled after the clipper has been entered
IdleMat == << << F(1) >> >>
NoMat == [done |-> FALSE, det |-> F(0), adj |-> <<>>, tmp |-> F(0), inv |-> <<>>]
MatIdle == matIn = IdleMat /\ matOut = NoMat
\* TGAImage(): no data, width 0, height 0, bytespp 0
EmptyImage == [data |-> <<>>, width |-> 0, height |-> 0, bytespp |-> 0]
\* TGAColor(): bgra {0,0,0,0}, bytespp 0
DefaultColor == [bgra |-> << 0, 0, 0, 0 >>, bytespp |-> 0]
IdleTex == [img |-> EmptyImage, uv |-> << F(0), F(0) >>]
NoTex == [done |-> FALSE, diffuse |-> DefaultColor,
          normal |-> << F(0), F(0), F(0) >>, specular |-> F(0)]
TexIdle == texIn = IdleTex /\ texOut = NoTex
\* the four buffers main allocates
Buffers == { "zBuffer", "colorBuffer", "shadowZBuffer", "shadowColorBuffer" }
\* a column of a shader's varying state that no vertex stage has written
NoColumn == [pass |-> "none", face |-> 0, vert |-> 0]
\* the uniform state of a Shader before it is set up: the value of uLightPos
\* and how often it was assigned, the face uTangent and uBitangent were
\* computed from and how often they were assigned
NoUniform == [lightPos |-> "unset", lightSets |-> 0, tangent |-> 0, tangentSets |-> 0]
\* main before its buffer loop: nothing is filled, no face was culled, clipped
\* or rasterized
FrameStart == [pass |-> "init", face |-> 1, step |-> "vertex", j |-> 1,
               culled |-> FALSE, clipped |-> FALSE, log |-> <<>>,
               varying |-> [c \in 0..2 |-> NoColumn], written |-> <<>>,
               ready |-> {}, wrote |-> [b \in Buffers |-> 0],
               uniform |-> NoUniform]
FrameIdle == faces = <<>> /\ frame = FrameStart
IdleRle == [width |-> 0, height |-> 0, bytespp |-> 0, stream |-> <<>>, missing |-> 0]
NoRle == [pc |-> "idle", next |-> 1, currentpixel |-> 0, currentbyte |-> 0,
          data |-> <<>>, stray |-> {}]
RleIdle == rleIn = IdleRle /\ rle = NoRle
RestIdle == ShadowIdle /\ MatIdle /\ TexIdle /\ FrameIdle /\ RleIdle

\* main(): the buffers are allocated and filled before the first pass
Init ==
    /\ cntSample \in {1, CNT_SAMPLE}
    /\ colorBuffer = [idx \in Slots(cntSample) |-> Black]
    /\ zBuffer = [idx \in Slots(cntSample) |-> Sentinel]
    /\ calls = <<>>
    /\ fragCount = NoFrags
    /\ written = {}
    /\ touched = {}
    /\ visited = {}
    /\ baryIn = IdleBary
    /\ baryOut = <<>>
    /\ clipIn = IdleClip
    /\ clipOut = NoClip
    /\ RestIdle

\* the buffers and the record of the call once triangle() has returned r
Returned(r) ==
    /\ colorBuffer' = r.color
    /\ zBuffer' = r.z
    /\ fragCount' = r.frags
    /\ written' = r.written
    /\ touched' = r.touched
    /\ visited' = r.visited

\* a pass calls triangle() on the next triangle
Triangle(k) ==
    /\ Len(calls) < MaxCalls
    /\ Returned(triangle(k, colorBuffer, zBuffer, cntSample))
    /\ calls' = Append(calls, k)
    /\ UNCHANGED <<cntSample, baryVars, clipVars, restVars>>

Next == \E k \in InputIds : Triangle(k)

Spec == Init /\ [][Next]_vars

---------------------------------------------------------------------------
(* what the claims speak of                                                *)

Fresh(cs) == [color |-> [idx \in Slots(cs) |-> Black],
              z |-> [idx \in Slots(cs) |-> Sentinel]]

\* the buffers after the calls of seq, in order, on fresh buffers
RECURSIVE Replay(_, _)
Replay(seq, cs) ==
    IF seq = <<>> THEN Fresh(cs)
    ELSE LET prev == Replay(SubSeq(seq, 1, Len(seq) - 1), cs)
             r == triangle(seq[Len(seq)], prev.color, prev.z, cs)
         IN  [color |-> r.color, z |-> r.z]

\* the sequences that hold the elements of seq in another order
Perms(seq) ==
    LET n == Len(seq)
    IN  { [i \in 1..n |-> seq[f[i]]] :
            f \in { g \in [1..n -> 1..n] : \A i, j \in 1..n : i # j => g[i] # g[j] } }

LastCall == calls[Len(calls)]

\* the sample slots of a cs-sample raster: << <<x, y>>, i >>
Samples(cs) == Pixels \X (0..(cs - 1))

IdxOf(q, cs) == SlotIndex(cs, Width, q[1][1], q[1][2], q[2])

\* sample q passes the coverage test of input k
Covers(k, q, cs) == ~BarReject(Geom[k][cs].smp[q].bar)

DepthAt(k, q, cs) == Geom[k][cs].smp[q].z

\* the shader of input k accepts every fragment
Accepting(k, cs) == \A p \in Pixels : Geom[k][cs].frag[p]

\* the three screen vertices of input k are collinear or coincide
Degenerate(k) ==
    LET sc == ScOf(k)
    IN  FSub(FMul(FSub(sc[2][1], sc[1][1]), FSub(sc[3][2], sc[1][2])),
             FMul(FSub(sc[3][1], sc[1][1]), FSub(sc[2][2], sc[1][2]))) = F(0)

\* C1: after two triangle() calls on fresh buffers with shaders that accept
\* every fragment, a slot covered by both triangles at different depths holds
\* the colour and the depth of the closer (larger depth) one, whichever of the
\* two calls came first.
C1_CloserWins ==
    Len(calls) = 2 =>
      LET a == calls[1]
          b == calls[2]
          cs == cntSample
      IN  (Accepting(a, cs) /\ Accepting(b, cs)) =>
            \A q \in Samples(cs) :
               (Covers(a, q, cs) /\ Covers(b, q, cs)
                  /\ DepthAt(a, q, cs) # DepthAt(b, q, cs)) =>
                 LET win == IF FLess(DepthAt(a, q, cs), DepthAt(b, q, cs)) THEN b ELSE a
                 IN  /\ zBuffer[IdxOf(q, cs)] = DepthAt(win, q, cs)
                     /\ colorBuffer[IdxOf(q, cs)] = TriInputs[win].col

\* the closer triangle was rasterized first and the farther one did not replace it
C1_Witness ==
    /\ Len(calls) = 2
    /\ Accepting(calls[1], cntSample) /\ Accepting(calls[2], cntSample)
    /\ \E q \in Samples(cntSample) :
          /\ Covers(calls[1], q, cntSample) /\ Covers(calls[2], q, cntSample)
          /\ FLess(DepthAt(calls[2], q, cntSample), DepthAt(calls[1], q, cntSample))
          /\ colorBuffer[IdxOf(q, cntSample)] = TriInputs[calls[1]].col
          /\ TriInputs[calls[1]].col # TriInputs[calls[2]].col

\* C2: a triangle() call assigns a slot only when the sample's depth is
\* strictly greater than the depth the slot held; a sample of equal depth
\* leaves the slot alone.
C2_StrictlyCloser ==
    [][\A idx \in written' : FLess(zBuffer[idx], zBuffer'[idx])]_vars

\* C3: no triangle() call lowers the depth stored in a slot.
C3_DepthMonotone ==
    [][\A idx \in DOMAIN zBuffer : FLeq(zBuffer[idx], zBuffer'[idx])]_vars

\* a slot that held a triangle's depth was overwritten by a closer one
C3_Witness ==
    /\ Len(calls) = 2
    /\ \E idx \in written :
          LET before == Replay(<<calls[1]>>, cntSample).z[idx]
          IN  FLess(Sentinel, before) /\ FLess(before, zBuffer[idx])

\* C4: the depth buffer the calls made so far have produced is the one they
\* produce in every other order.
C4_DepthOrderFree ==
    \A seq \in Perms(calls) : Replay(seq, cntSample).z = zBuffer

\* two different triangles overlap at different depths, closer one first
C4_Witness ==
    /\ Len(calls) = 2
    /\ calls[1] # calls[2]
    /\ written # {}
    /\ \E q \in Samples(cntSample) :
          /\ Covers(calls[1], q, cntSample) /\ Covers(calls[2], q, cntSample)
          /\ FLess(DepthAt(calls[2], q, cntSample), DepthAt(calls[1], q, cntSample))
          /\ zBuffer[IdxOf(q, cntSample)] = DepthAt(calls[1], q, cntSample)

\* C5: in one triangle() call the fragment stage runs at most once for a
\* pixel, and runs for a pixel only if one of its samples passed the coverage
\* test and the depth test against the buffer the call started from.
C5_FragmentOncePerPixel ==
    [][\A p \in DOMAIN fragCount' :
          /\ fragCount'[p] <= 1
          /\ fragCount'[p] >= 1 =>
                \E i \in 0..(cntSample - 1) :
                   /\ ~BarReject(SmpAt(calls'[Len(calls')], cntSample, p[1], p[2], i).bar)
                   /\ ~DepthReject(SmpAt(calls'[Len(calls')], cntSample, p[1], p[2], i).z,
                                   zBuffer[SlotIndex(cntSample, Width, p[1], p[2], i)])]_vars

\* the multi-sample raster: one invocation served two or more samples of a
\* pixel, and a visited pixel without an accepted sample had none
C5_Witness ==
    /\ cntSample = CNT_SAMPLE
    /\ \E p \in visited :
          /\ fragCount[p] = 1
          /\ Cardinality({i \in 0..(cntSample - 1) :
                            SlotIndex(cntSample, Width, p[1], p[2], i) \in written}) >= 2
    /\ \E p \in visited : fragCount[p] = 0

\* C6: a pixel for which the fragment stage returned discard during a
\* triangle() call has none of its slots, colour or depth, changed by that call.
C6_DiscardWritesNothing ==
    [][\A p \in DOMAIN fragCount' :
          (fragCount'[p] >= 1 /\ ~FragAt(calls'[Len(calls')], cntSample, p[1], p[2])) =>
             \A i \in 0..(cntSample - 1) :
                LET idx == SlotIndex(cntSample, Width, p[1], p[2], i)
                IN  idx \in DOMAIN zBuffer =>
                      /\ zBuffer'[idx] = zBuffer[idx]
                      /\ colorBuffer'[idx] = colorBuffer[idx]]_vars

\* the fragment stage discarded a pixel whose slots an earlier call had filled
C6_Witness ==
    /\ Len(calls) = 2
    /\ \E p \in visited :
          /\ fragCount[p] = 1
          /\ ~FragAt(LastCall, cntSample, p[1], p[2])
          /\ \E i \in 0..(cntSample - 1) :
                FLess(Sentinel, zBuffer[SlotIndex(cntSample, Width, p[1], p[2], i)])

\* C7: for a triangle whose three screen vertices are collinear or coincide,
\* barycentric() gives a negative weight at every sample point and pixel
\* centre of the raster, and the triangle() call assigns no slot and never
\* runs the fragment stage.
C7_DegenerateDrawsNothing ==
    (Len(calls) > 0 /\ Degenerate(LastCall)) =>
       LET before == Replay(SubSeq(calls, 1, Len(calls) - 1), cntSample)
       IN  /\ \A q \in Samples(cntSample) : BarReject(Geom[LastCall][cntSample].smp[q].bar)
           /\ \A p \in Pixels : BarReject(MiddleOf(ScOf(LastCall), p[1], p[2]))
           /\ written = {}
           /\ \A p \in DOMAIN fragCount : fragCount[p] = 0
           /\ zBuffer = before.z
           /\ colorBuffer = before.color

\* a degenerate triangle was rasterized over pixels an earlier call had filled
C7_Witness ==
    /\ Len(calls) = 2
    /\ Degenerate(LastCall)
    /\ \E p \in visited :
          FLess(Sentinel, zBuffer[SlotIndex(cntSample, Width, p[1], p[2], 0)])

\* C8: triangle() runs over pixels of the raster only, every slot index it
\* uses lies inside the buffers, and different (x, y, i) give different indices.
C8_IndicesInRange ==
    /\ visited \subseteq Pixels
    /\ \A t \in touched :
          /\ <<t[1], t[2]>> \in Pixels
          /\ t[4] \in Slots(cntSample)
          /\ t[4] \in DOMAIN zBuffer /\ t[4] \in DOMAIN colorBuffer
    /\ \A t, u \in touched : t[4] = u[4] => t = u
    /\ \A q, r \in Samples(cntSample) :
          /\ IdxOf(q, cntSample) \in Slots(cntSample)
          /\ IdxOf(q, cntSample) = IdxOf(r, cntSample) => q = r

\* a triangle with a vertex outside the raster reached the last pixel
C8_Witness ==
    /\ Len(calls) > 0
    /\ \E i \in 1..3 : \E j \in 1..2 :
          \/ FLess(ScOf(LastCall)[i][j], F(0))
          \/ FLess(F(IF j = 1 THEN Width ELSE Height), ScOf(LastCall)[i][j])
    /\ \E t \in touched : t[1] = Width - 1 /\ t[2] = Height - 1

---------------------------------------------------------------------------
(* barycentric() on its own                                                *)

\* pixel-scale points, and points 1/512 of a pixel apart
BaryPts ==
    { <<F(0), F(0)>>, <<F(2), F(0)>>, <<F(0), F(2)>>, <<F(1), F(1)>>,
      <<Q(1, 2), Q(1, 2)>>, <<F(3), F(1)>>, <<F(-1), F(-1)>> }

BaryPtsFine ==
    { <<F(0), F(0)>>, <<Q(1, 512), F(0)>>, <<F(0), Q(1, 512)>>,
      <<Q(1, 512), Q(1, 512)>> }

BaryInputs ==
    [A : BaryPts, B : BaryPts, C : BaryPts, P : BaryPts]
       \cup [A : BaryPtsFine, B : BaryPtsFine, C : BaryPtsFine, P : BaryPtsFine]

InitBary ==
    /\ cntSample = 1
    /\ colorBuffer = Fresh(1).color
    /\ zBuffer = Fresh(1).z
    /\ calls = <<>>
    /\ fragCount = NoFrags
    /\ written = {}
    /\ touched = {}
    /\ visited = {}
    /\ baryIn \in BaryInputs
    /\ baryOut = <<>>
    /\ clipIn = IdleClip
    /\ clipOut = NoClip
    /\ RestIdle

BarycentricCall ==
    /\ baryOut = <<>>
    /\ baryOut' = barycentric(baryIn.A, baryIn.B, baryIn.C, baryIn.P)
    /\ UNCHANGED <<rasterVars, baryIn, clipVars, restVars>>

NextBary == BarycentricCall

SpecBary == InitBary /\ [][NextBary]_vars

\* twice the signed area of PQR
Area2(P, Q0, R) ==
    FSub(FMul(FSub(Q0[1], P[1]), FSub(R[2], P[2])),
         FMul(FSub(R[1], P[1]), FSub(Q0[2], P[2])))

\* P lies in the closed triangle ABC: on no edge's outer side
InsideOrOn(A, B, C, P) ==
    LET o == Sign(Area2(A, B, C)[1])
    IN  /\ o * Sign(Area2(A, B, P)[1]) >= 0
        /\ o * Sign(Area2(B, C, P)[1]) >= 0
        /\ o * Sign(Area2(C, A, P)[1]) >= 0

\* what C9 says of a result
BaryLaws(A, B, C, P, out) ==
    /\ P = A => out = << F(1), F(0), F(0) >>
    /\ P = B => out = << F(0), F(1), F(0) >>
    /\ P = C => out = << F(0), F(0), F(1) >>
    /\ FAdd(FAdd(out[1], out[2]), out[3]) = F(1)
    /\ (FLeq(F(0), out[1]) /\ FLeq(F(0), out[2]) /\ FLeq(F(0), out[3]))
          <=> InsideOrOn(A, B, C, P)

\* C9 as stated: for every triangle of non-zero area barycentric() is
\* (1,0,0), (0,1,0), (0,0,1) at A, B, C, its weights sum to 1, and all are
\* non-negative exactly on the closed triangle.
C9_Original ==
    (baryOut # <<>> /\ Area2(baryIn.A, baryIn.B, baryIn.C) # F(0)) =>
       BaryLaws(baryIn.A, baryIn.B, baryIn.C, baryIn.P, baryOut)

\* C9 amended: the same for every triangle whose doubled area is at least
\* 1e-5 in magnitude.
C9_Barycentric ==
    (baryOut # <<>>
       /\ ~FLess(FAbs(Area2(baryIn.A, baryIn.B, baryIn.C)), Q(1, 100000))) =>
       BaryLaws(baryIn.A, baryIn.B, baryIn.C, baryIn.P, baryOut)

\* the query point is the second vertex of a triangle with area
C9_Witness ==
    /\ baryOut = << F(0), F(1), F(0) >>
    /\ baryIn.P = baryIn.B
    /\ baryIn.P # baryIn.A /\ baryIn.P # baryIn.C
    /\ ~FLess(FAbs(Area2(baryIn.A, baryIn.B, baryIn.C)), Q(1, 100000))

---------------------------------------------------------------------------
(* the homogeneous clipper                                                 *)

\* componentwise vector operations
VAdd(a, b) == [i \in DOMAIN a |-> FAdd(a[i], b[i])]
VSub(a, b) == [i \in DOMAIN a |-> FSub(a[i], b[i])]
VScale(a, t) == [i \in DOMAIN a |-> FMul(a[i], t)]

\* struct Vertex
Vertex(worldCoord, clipCoord, uv, normal) ==
    [normal |-> normal, worldCoord |-> worldCoord, clipCoord |-> clipCoord, uv |-> uv]

\* the vertex pushIntersection() appends for the edge now -> next
Intersection(now, next, axis) ==
    LET t0 == FSub(now.clipCoord[4], now.clipCoord[axis + 1])
        t1 == FSub(next.clipCoord[4], next.clipCoord[axis + 1])
        t == FDiv(t0, FSub(t0, t1))
        w0 == FAdd(FDiv(F(1), now.clipCoord[4]),
                   FMul(t, FSub(FDiv(F(1), next.clipCoord[4]),
                                FDiv(F(1), now.clipCoord[4]))))
        w == FDiv(F(1), w0)
        lerp(a, b) == VAdd(a, VScale(VSub(b, a), t))
    IN  [clipCoord |-> lerp(now.clipCoord, next.clipCoord),
         worldCoord |-> VScale(lerp(now.worldCoord, next.worldCoord), w),
         normal |-> VScale(lerp(now.normal, next.normal), w),
         uv |-> VScale(lerp(now.uv, next.uv), w)]

pushIntersection(result, now, next, axis) ==
    Append(result, Intersection(now, next, axis))

\* variant: a vertex on the plane is not kept
RECURSIVE ClipLoopStrict(_, _, _, _)
ClipLoopStrict(original, result, axis, i) ==
    IF i >= Len(original) THEN result
    ELSE
      LET now == original[i + 1]
          next == original[((i + 1) % Len(original)) + 1]
          checkNow == FDiv(now.clipCoord[axis + 1], now.clipCoord[4])
          checkNext == FDiv(next.clipCoord[axis + 1], next.clipCoord[4])
          kept == IF FLess(checkNow, F(1)) THEN Append(result, now) ELSE result
          cut == IF \/ FLess(checkNow, F(1)) /\ FLess(F(1), checkNext)
                    \/ FLess(F(1), checkNow) /\ FLess(checkNext, F(1))
                 THEN pushIntersection(kept, now, next, axis)
                 ELSE kept
      IN  ClipLoopStrict(original, cut, axis, i + 1)

\* the for loop of singleFaceZClip(), from edge i on
RECURSIVE ClipLoop(_, _, _, _)
ClipLoop(original, result, axis, i) ==
    IF i >= Len(original) THEN result
    ELSE
      LET now == original[i + 1]
          next == original[((i + 1) % Len(original)) + 1]
          checkNow == FDiv(now.clipCoord[axis + 1], now.clipCoord[4])
          checkNext == FDiv(next.clipCoord[axis + 1], next.clipCoord[4])
          kept == IF FLeq(checkNow, F(1)) THEN Append(result, now) ELSE result
          cut == IF \/ FLess(checkNow, F(1)) /\ FLess(F(1), checkNext)
                    \/ FLess(F(1), checkNow) /\ FLess(checkNext, F(1))
                 THEN pushIntersection(kept, now, next, axis)
                 ELSE kept
      IN  ClipLoop(original, cut, axis, i + 1)

\* singleFaceZClip(original, result, axis): what it appends to result
singleFaceZClip(original, result, axis) == ClipLoop(original, result, axis, 0)

\* vertex.clipCoord[axis] = -vertex.clipCoord[axis], for every vertex
FlipAxis(poly, axis) ==
    [j \in DOMAIN poly |->
       [poly[j] EXCEPT !.clipCoord = [@ EXCEPT ![axis + 1] = FNeg(@)]]]

\* variant: only the +w plane is clipped
homogeneousClipOnePlane(original, axis) ==
    singleFaceZClip(original, <<>>, axis)

\* variant: the axis is not flipped back after the second clip
homogeneousClipNoRestore(original, axis) ==
    singleFaceZClip(FlipAxis(singleFaceZClip(original, <<>>, axis), axis), <<>>, axis)

\* homogeneousClip(original, result, axis), called with an empty result
homogeneousClip(original, axis) ==
    LET intermediate == FlipAxis(singleFaceZClip(original, <<>>, axis), axis)
    IN  FlipAxis(singleFaceZClip(intermediate, <<>>, axis), axis)

\* <<axis component, w>> of the clip coordinates the model clips
ClipPairs ==
    { <<0, 1>>, <<1, 1>>, <<-2, 2>>, <<1, -2>>, <<-1, -1>>,
      <<3, 1>>, <<-3, 1>>, <<2, -1>>, <<0, 0>>, <<1, 0>> }

\* vertex j of a face, with <<a, w>> on the clipped axis; the other two axes
\* lie far outside the volume
ClipVertex(j, pair, axis) ==
    Vertex(<< F(j), F(pair[1]), F(pair[2]), F(1) >>,
           [c \in 1..4 |-> IF c = axis + 1 THEN F(pair[1])
                           ELSE IF c = 4 THEN F(pair[2]) ELSE F(9)],
           << Q(j, 4), Q(1, 2) >>,
           << F(0), F(j), F(1) >>)

\* PhongShading builds original from the three vertices of a face
ClipInputs ==
    { [original |-> [j \in 1..3 |-> ClipVertex(j, ps[j], axis)], axis |-> axis] :
        ps \in ClipPairs \X ClipPairs \X ClipPairs, axis \in 0..2 }

InitClip ==
    /\ cntSample = 1
    /\ colorBuffer = Fresh(1).color
    /\ zBuffer = Fresh(1).z
    /\ calls = <<>>
    /\ fragCount = NoFrags
    /\ written = {}
    /\ touched = {}
    /\ visited = {}
    /\ baryIn = IdleBary
    /\ baryOut = <<>>
    /\ clipIn \in ClipInputs
    /\ clipOut = NoClip
    /\ RestIdle

ClipCall ==
    /\ ~clipOut.done
    /\ clipOut' = [done |-> TRUE, result |-> homogeneousClip(clipIn.original, clipIn.axis)]
    /\ UNCHANGED <<rasterVars, baryVars, clipIn, restVars>>

NextClip == ClipCall

SpecClip == InitClip /\ [][NextClip]_vars

\* the vertex passes both plane tests of the clipper: -1 <= axis / w <= 1
InsideVolume(v, axis) ==
    LET r == FDiv(v.clipCoord[axis + 1], v.clipCoord[4])
    IN  FLeq(F(-1), r) /\ FLeq(r, F(1))

\* C10: homogeneousClip of a polygon whose vertices all lie inside the clip
\* volume of the axis returns the polygon itself: as many vertices, in the
\* same order, each with the world and clip coordinate, UV and normal it had.
C10_InsideUnchanged ==
    (clipOut.done
       /\ \A j \in DOMAIN clipIn.original : InsideVolume(clipIn.original[j], clipIn.axis))
      => clipOut.result = clipIn.original

\* an inside polygon with a vertex on each plane and one of negative w
C10_Witness ==
    /\ clipOut.done
    /\ \A j \in DOMAIN clipIn.original : InsideVolume(clipIn.original[j], clipIn.axis)
    /\ \E j \in DOMAIN clipIn.original :
          FDiv(clipIn.original[j].clipCoord[clipIn.axis + 1],
               clipIn.original[j].clipCoord[4]) = F(1)
    /\ \E j \in DOMAIN clipIn.original :
          FDiv(clipIn.original[j].clipCoord[clipIn.axis + 1],
               clipIn.original[j].clipCoord[4]) = F(-1)
    /\ \E j \in DOMAIN clipIn.original : FLess(clipIn.original[j].clipCoord[4], F(0))
    /\ Len(clipOut.result) = 3

\* axis / w of a vertex, the value singleFaceZClip() tests
RatioOf(v, axis) == FDiv(v.clipCoord[axis + 1], v.clipCoord[4])

\* every vertex lies beyond the +w plane of the axis
AllBeyondPlus(poly, axis) == \A j \in DOMAIN poly : FLess(F(1), RatioOf(poly[j], axis))

\* every vertex lies beyond the -w plane of the axis
AllBeyondMinus(poly, axis) == \A j \in DOMAIN poly : FLess(RatioOf(poly[j], axis), F(-1))

\* C11: homogeneousClip of a polygon whose vertices all lie outside the clip
\* volume on one side of the axis, all beyond the +w plane or all beyond the
\* -w plane, returns fewer than 3 vertices.
C11_OutsideDropped ==
    (clipOut.done
       /\ (\/ AllBeyondPlus(clipIn.original, clipIn.axis)
           \/ AllBeyondMinus(clipIn.original, clipIn.axis)))
      => Len(clipOut.result) < 3

\* a polygon beyond the -w plane, which the first pass keeps whole, was clipped
C11_Witness ==
    /\ clipOut.done
    /\ AllBeyondMinus(clipIn.original, clipIn.axis)
    /\ Len(singleFaceZClip(clipIn.original, <<>>, clipIn.axis)) = 3
    /\ \E j \in DOMAIN clipIn.original : FLess(clipIn.original[j].clipCoord[4], F(0))
    /\ Len(clipOut.result) = 0

\* the vertex lies on the +w or the -w plane of the axis
OnPlane(v, axis) ==
    /\ IsFinite(v.clipCoord[axis + 1])
    /\ IsFinite(v.clipCoord[4])
    /\ \/ v.clipCoord[axis + 1] = v.clipCoord[4]
       \/ v.clipCoord[axis + 1] = FNeg(v.clipCoord[4])

\* the vertex is one pushIntersection() made, not a vertex of the input
Synthesized(v, poly) == \A j \in DOMAIN poly : poly[j] # v

\* C12: for every input polygon and axis, every vertex homogeneousClip
\* returns lies inside the view volume of the axis, -1 <= axis / w <= 1
\* (-w <= axis <= w for positive w), and every vertex the clipper
\* synthesized lies on one of the two planes, axis = w or axis = -w.
C12_ResultInsideVolume ==
    clipOut.done =>
       \A m \in DOMAIN clipOut.result :
          /\ InsideVolume(clipOut.result[m], clipIn.axis)
          /\ Synthesized(clipOut.result[m], clipIn.original)
                => OnPlane(clipOut.result[m], clipIn.axis)

\* the edge now -> next crosses the +w plane: the test of singleFaceZClip()
Crosses(now, next, axis) ==
    \/ FLess(RatioOf(now, axis), F(1)) /\ FLess(F(1), RatioOf(next, axis))
    \/ FLess(F(1), RatioOf(now, axis)) /\ FLess(RatioOf(next, axis), F(1))

\* t = (w0 - axis0) / ((w0 - axis0) - (w1 - axis1))
CrossingT(now, next, axis) ==
    FDiv(FSub(now.clipCoord[4], now.clipCoord[axis + 1]),
         FSub(FSub(now.clipCoord[4], now.clipCoord[axis + 1]),
              FSub(next.clipCoord[4], next.clipCoord[axis + 1])))

\* a + t * (b - a), componentwise
Lerp(a, b, t) == VAdd(a, VScale(VSub(b, a), t))

\* value / w interpolated at t, then multiplied by the interpolated w
PerspectiveLerp(a, wa, b, wb, t, w) ==
    VScale(Lerp(VScale(a, FDiv(F(1), wa)), VScale(b, FDiv(F(1), wb)), t), w)

\* the interpolated w: the reciprocal of the interpolated 1/w, or the w of
\* the interpolated clip coordinate
InterpolatedWs(now, next, t) ==
    { FDiv(F(1), FAdd(FDiv(F(1), now.clipCoord[4]),
                      FMul(t, FSub(FDiv(F(1), next.clipCoord[4]),
                                   FDiv(F(1), now.clipCoord[4]))))),
      FAdd(now.clipCoord[4], FMul(FSub(next.clipCoord[4], now.clipCoord[4]), t)) }

\* the intersection vertex as C13 describes it, for an interpolated w
ClaimedIntersection(now, next, t, w) ==
    [clipCoord |-> Lerp(now.clipCoord, next.clipCoord, t),
     worldCoord |-> PerspectiveLerp(now.worldCoord, now.clipCoord[4],
                                    next.worldCoord, next.clipCoord[4], t, w),
     normal |-> PerspectiveLerp(now.normal, now.clipCoord[4],
                                next.normal, next.clipCoord[4], t, w),
     uv |-> PerspectiveLerp(now.uv, now.clipCoord[4], next.uv, next.clipCoord[4], t, w)]

\* C13: for an edge (v0, v1) crossing the clip plane the vertex the clipper
\* synthesizes has t = (w0 - axis0) / ((w0 - axis0) - (w1 - axis1)), clip
\* coordinate v0.clip + t * (v1.clip - v0.clip), and world coordinate, UV and
\* normal equal to value / w interpolated at t times the interpolated w.
C13_PerspectiveCorrect ==
    clipOut.done =>
       \A j \in DOMAIN clipIn.original :
          LET now == clipIn.original[j]
              next == clipIn.original[(j % Len(clipIn.original)) + 1]
              t == CrossingT(now, next, clipIn.axis)
              made == singleFaceZClip(clipIn.original, <<>>, clipIn.axis)
          IN  Crosses(now, next, clipIn.axis) =>
                 \E m \in DOMAIN made : \E w \in InterpolatedWs(now, next, t) :
                    made[m] = ClaimedIntersection(now, next, t, w)

---------------------------------------------------------------------------
(* the fragment stages                                                     *)

\* the shader of the last triangle() call
LastKind == TriInputs[LastCall].kind

\* the reciprocal w the Phong stage interpolates at the centre of pixel p
\* in the last call
CentreW(p) ==
    LET sc == ScOf(LastCall)
        bar == MiddleOf(sc, p[1], p[2])
    IN  FAdd(FAdd(FMul(sc[1][4], bar[1]), FMul(sc[2][4], bar[2])),
             FMul(sc[3][4], bar[3]))

\* its magnitude is below the threshold of the guard
BelowThreshold(w) == FLess(FAbs(w), Q(1, 10000000))

\* the slots of pixel p
SlotsOf(p) == { SlotIndex(cntSample, Width, p[1], p[2], i) : i \in 0..(cntSample - 1) }

\* the last call stored a sample of pixel p: its fragment was accepted
Stored(p) == SlotsOf(p) \cap written # {}

\* the buffers before the last call
Before == Replay(SubSeq(calls, 1, Len(calls) - 1), cntSample)

\* C14 as stated: the fragment stage of the depth-only shader and of the
\* Phong shader returns accepted for every barycentric input and every
\* varying state.
C14_Original ==
    (Len(calls) > 0 /\ LastKind \in {"depth", "phong"}) =>
       /\ \A p \in Pixels : Geom[LastCall][cntSample].frag[p]
       /\ \A p \in Pixels : fragCount[p] = 1 => Stored(p)

\* C14 amended: the depth-only fragment stage accepts every input; the Phong
\* fragment stage accepts exactly the inputs whose interpolated reciprocal w
\* has magnitude 1e-7 or more.
C14_FragmentAccepts ==
    Len(calls) > 0 =>
       /\ LastKind = "depth" =>
             /\ \A p \in Pixels : Geom[LastCall][cntSample].frag[p]
             /\ \A p \in Pixels : fragCount[p] = 1 => Stored(p)
       /\ LastKind = "phong" =>
             /\ \A p \in Pixels :
                   Geom[LastCall][cntSample].frag[p] <=> ~BelowThreshold(CentreW(p))
             /\ \A p \in Pixels :
                   fragCount[p] = 1 => (Stored(p) <=> ~BelowThreshold(CentreW(p)))

\* a Phong call whose fragment stage ran for two pixels, accepting one and
\* discarding the other
C14_Witness ==
    /\ Len(calls) > 0
    /\ LastKind = "phong"
    /\ \E p, q \in Pixels :
          /\ fragCount[p] = 1 /\ Stored(p) /\ ~BelowThreshold(CentreW(p))
          /\ fragCount[q] = 1 /\ ~Stored(q) /\ BelowThreshold(CentreW(q))

\* C15: when the reciprocal w the Phong fragment stage interpolates has
\* magnitude below the threshold, the stage returns discard and triangle()
\* leaves the colour and the depth of every sample of that pixel as they were.
C15_GuardDiscards ==
    (Len(calls) > 0 /\ LastKind = "phong") =>
       \A p \in Pixels :
          BelowThreshold(CentreW(p)) =>
             /\ ~Geom[LastCall][cntSample].frag[p]
             /\ ~Stored(p)
             /\ \A idx \in SlotsOf(p) :
                   zBuffer[idx] = Before.z[idx] /\ colorBuffer[idx] = Before.color[idx]

\* the stage ran for a pixel with a zero reciprocal w, on 4 samples per
\* pixel, in a call that stored other pixels
C15_Witness ==
    /\ Len(calls) > 0
    /\ LastKind = "phong"
    /\ cntSample = CNT_SAMPLE
    /\ written # {}
    /\ \E p \in Pixels : fragCount[p] = 1 /\ CentreW(p) = F(0) /\ ~Stored(p)

---------------------------------------------------------------------------
(* the shadow step of Shader::fragment                                     *)

\* dx and dy of the two for loops
PcfOffsets == (-2)..1

\* int sampleX = lightSpacePos.x + dx (and sampleY likewise)
SampleCoord(c, d) == FInt(FAdd(c, F(d)))

\* the bounds check of one coordinate fails: sample < 0 || sample >= size
OutOfBounds(sample, size) == sample < 0 \/ sample >= size

\* the <<dx, dy>> that pass both bounds checks: each does cntSample++
PcfInBounds(pos, width, height) ==
    { o \in PcfOffsets \X PcfOffsets :
         /\ ~OutOfBounds(SampleCoord(pos[1], o[1]), width)
         /\ ~OutOfBounds(SampleCoord(pos[2], o[2]), height) }

\* sampleY * uShadowBufferWidth + sampleX
ShadowIndex(pos, o, width) ==
    SampleCoord(pos[2], o[2]) * width + SampleCoord(pos[1], o[1])

\* uShadowBuffer[idx]
ShadowRead(buf, idx) == IF idx \in DOMAIN buf THEN buf[idx] ELSE Sentinel

\* variant: the bias is left out
InShadowNoBias(z, stored) == FLess(z, stored)

\* variant: the comparison reversed
InShadowReversed(z, stored) == FLess(stored, FAdd(z, Q(5, 1000)))

\* lightSpacePos.z + 0.005f < uShadowBuffer[...]
InShadow(z, stored) == FLess(FAdd(z, Q(5, 1000)), stored)

\* the <<dx, dy>> that do shadow += 1.0f
PcfShadowed(pos, buf, width, inb) ==
    { o \in inb : InShadow(pos[3], ShadowRead(buf, ShadowIndex(pos, o, width))) }

\* shadow /= cntSample, after the loops ran over the offsets inb
ShadowStep(pos, buf, width, inb) ==
    [done |-> TRUE,
     shadow |-> FDiv(F(Cardinality(PcfShadowed(pos, buf, width, inb))),
                     F(Cardinality(inb))),
     cnt |-> Cardinality(inb),
     reads |-> { ShadowIndex(pos, o, width) : o \in inb },
     taps |-> PcfShadowed(pos, buf, width, inb)]

\* the shadow factor of a fragment at lightSpacePos pos
ShadowOf(pos, buf, width, height) ==
    ShadowStep(pos, buf, width, PcfInBounds(pos, width, height))

\* the receiver plane and the occluder of the shadow pass
ReceiverId == CHOOSE k \in InputIds : TriInputs[k] = Mk("big", "far", "depth", 1)
OccluderId == CHOOSE k \in InputIds : TriInputs[k] = Mk("half", "near", "depth", 5)

\* an occluder that lies beside the map: between the light and no receiver point
OffsideId == CHOOSE k \in InputIds : TriInputs[k] = Mk("out", "near", "depth", 12)

Occluders == { OccluderId, OffsideId }

\* the faces shadowMapping() rasterizes, in order
ShadowScenes ==
    { <<>>, <<ReceiverId>>, <<OccluderId>> }
       \cup { <<ReceiverId, o>> : o \in Occluders }
       \cup { <<o, ReceiverId>> : o \in Occluders }

\* shadowZBuffer after the shadow pass
ShadowBufferOf(scene) == Replay(scene, 1).z

\* x or y of a light-space position: on and between the texels, inside and
\* outside a map n texels wide
LightCoords(n) ==
    { F(i) : i \in (-3)..(n + 2) } \cup { Q(2 * i + 1, 2) : i \in (-3)..(n + 1) }

\* the light-space depth of a point of the receiver, of the occluder, and of
\* a point the bias 0.005 behind the occluder
LightDepths == { Q(1, 2), Q(9, 10), Q(179, 200) }

ShadowInputs ==
    { [scene |-> scene, buf |-> ShadowBufferOf(scene), pos |-> << x, y, z >>] :
         scene \in ShadowScenes,
         x \in LightCoords(Width), y \in LightCoords(Height), z \in LightDepths }

\* no triangle() call is in progress: the buffers of the lit pass are fresh
RasterIdle ==
    /\ cntSample = 1
    /\ colorBuffer = Fresh(1).color
    /\ zBuffer = Fresh(1).z
    /\ calls = <<>>
    /\ fragCount = NoFrags
    /\ written = {}
    /\ touched = {}
    /\ visited = {}

BaryIdle == baryIn = IdleBary /\ baryOut = <<>>

ClipIdle == clipIn = IdleClip /\ clipOut = NoClip

InitShadow ==
    /\ RasterIdle
    /\ BaryIdle
    /\ ClipIdle
    /\ shadowIn \in ShadowInputs
    /\ shadowOut = NoShadow
    /\ MatIdle
    /\ TexIdle
    /\ FrameIdle
    /\ RleIdle

\* Shader::fragment computes the shadow factor of one fragment
ShadowCall ==
    /\ ~shadowOut.done
    /\ shadowOut' = ShadowOf(shadowIn.pos, shadowIn.buf, Width, Height)
    /\ UNCHANGED <<rasterVars, baryVars, clipVars, shadowIn, matVars, texVars, frameVars, rleVars>>

NextShadow == ShadowCall

SpecShadow == InitShadow /\ [][NextShadow]_vars

\* C16: for every light-space position, also one whose whole 4x4
\* neighbourhood lies outside the shadow buffer, the shadow step divides by a
\* sample count that is not zero, its factor is in-shadow count divided by
\* samples in bounds and lies in [0, 1], and every index it reads lies in
\* [0, width * height).
C16_ShadowFactorDefined ==
    shadowOut.done =>
       /\ shadowOut.cnt # 0
       /\ IsFinite(shadowOut.shadow)
       /\ FLeq(F(0), shadowOut.shadow) /\ FLeq(shadowOut.shadow, F(1))
       /\ \E n \in 0..shadowOut.cnt : shadowOut.shadow = Q(n, shadowOut.cnt)
       /\ shadowOut.reads \subseteq 0..(Width * Height - 1)

\* the shadow pass rasterized the receiver plane and one occluder
OccludedScene == Len(shadowIn.scene) = 2

SceneOccluder == CHOOSE o \in Occluders : \E i \in 1..2 : shadowIn.scene[i] = o

ShapeOf(k) == Shapes[TriInputs[k].shape]

\* the fragment shaded is a point of the receiver plane inside the map
ReceiverPoint ==
    /\ shadowIn.pos[3] = Profiles[TriInputs[ReceiverId].profile].z[1]
    /\ InsideOrOn(ShapeOf(ReceiverId)[1], ShapeOf(ReceiverId)[2],
                  ShapeOf(ReceiverId)[3], << shadowIn.pos[1], shadowIn.pos[2] >>)
    /\ FLess(shadowIn.pos[1], F(Width))
    /\ FLess(shadowIn.pos[2], F(Height))

\* seen from the light, the point lies behind the occluder
BehindOccluder ==
    InsideOrOn(ShapeOf(SceneOccluder)[1], ShapeOf(SceneOccluder)[2],
               ShapeOf(SceneOccluder)[3], << shadowIn.pos[1], shadowIn.pos[2] >>)

\* the texel of the sample at offset o from the point: the coordinates
\* x + dx and y + dy with their fractions dropped
TexelAt(o) == << FInt(FAdd(shadowIn.pos[1], F(o[1]))),
                 FInt(FAdd(shadowIn.pos[2], F(o[2]))) >>

\* the samples of the four by four neighbourhood of the point, dx and dy from
\* -2 to 1, whose texel is in the map
Neighbourhood == { o \in ((-2)..1) \X ((-2)..1) : TexelAt(o) \in Pixels }

\* the samples of the neighbourhood where the light sees the occluder
Occluded == { o \in Neighbourhood : Covers(SceneOccluder, << TexelAt(o), 0 >>, 1) }

---------------------------------------------------------------------------
(* mat<n, n, float>: determinant, cofactors and inverse                    *)

\* the loop of dot(): ret += lhs[i] * rhs[i], from the last index down
RECURSIVE DotFrom(_, _, _, _)
DotFrom(lhs, rhs, i, ret) ==
    IF i = 0 THEN ret
    ELSE DotFrom(lhs, rhs, i - 1, FAdd(ret, FMul(lhs[i], rhs[i])))

dot(lhs, rhs) == DotFrom(lhs, rhs, Len(lhs), F(0))

\* the matrix without row row and column col
get_minor(m, row, col) ==
    [i \in 1..(Len(m) - 1) |->
       [j \in 1..(Len(m) - 1) |->
          m[IF i < row THEN i ELSE i + 1][IF j < col THEN j ELSE j + 1]]]

RECURSIVE det(_)
RECURSIVE cofactor(_, _, _)
RECURSIVE DetFrom(_, _, _)

\* the loop of dt::det: ret += src[0][i] * src.cofactor(0, i), from the last
\* column down
DetFrom(src, i, ret) ==
    IF i = 0 THEN ret
    ELSE DetFrom(src, i - 1, FAdd(ret, FMul(src[1][i], cofactor(src, 1, i))))

\* dt<DIM>::det, and dt<1>::det for the one by one matrix
det(src) == IF Len(src) = 1 THEN src[1][1] ELSE DetFrom(src, Len(src), F(0))

\* variant: the sign (-1)^(row + col) is left out
cofactorUnsigned(m, row, col) == det(get_minor(m, row, col))

cofactor(m, row, col) ==
    FMul(det(get_minor(m, row, col)), F(IF (row + col) % 2 = 1 THEN -1 ELSE 1))

\* mat::adjugate: the matrix of cofactors, not transposed
adjugate(m) == [i \in 1..Len(m) |-> [j \in 1..Len(m) |-> cofactor(m, i, j)]]

col(m, idx) == [i \in 1..Len(m) |-> m[i][idx]]

transpose(m) == [i \in 1..Len(m[1]) |-> col(m, i)]

\* operator/ of a matrix and a scalar
MatDiv(lhs, rhs) ==
    [i \in 1..Len(lhs) |-> [j \in 1..Len(lhs[i]) |-> FDiv(lhs[i][j], rhs)]]

\* operator* of two matrices
MatMul(lhs, rhs) ==
    [i \in 1..Len(lhs) |-> [j \in 1..Len(rhs[1]) |-> dot(lhs[i], col(rhs, j))]]

identity(n) == [i \in 1..n |-> [j \in 1..n |-> F(IF i = j THEN 1 ELSE 0)]]

\* T tmp = dot(ret[0], rows[0]) of invert_transpose, ret being adjugate()
InvertDivisor(ret, m) == dot(ret[1], m[1])

InvertTransposeOf(ret, m) == MatDiv(ret, InvertDivisor(ret, m))

invert_transpose(m) == InvertTransposeOf(adjugate(m), m)

invert(m) == transpose(invert_transpose(m))

\* the rows the matrices of the model are built of
MatRows(n) ==
    CASE n = 2 -> { << F(a), F(b) >> : a, b \in {-1, 0, 1, 2} }
      [] n = 3 -> { << F(1), F(0), F(0) >>, << F(0), F(2), F(0) >>,
                    << F(0), F(0), F(-1) >>, << F(1), F(1), F(0) >>,
                    << F(2), F(-1), F(3) >>, << F(0), F(1), F(1) >>,
                    << F(1), F(2), F(3) >>, << F(-1), F(0), F(2) >> }
      [] n = 4 -> { << F(1), F(0), F(0), F(2) >>, << F(0), F(2), F(0), F(-1) >>,
                    << F(0), F(0), F(-1), F(3) >>, << F(0), F(0), F(0), F(1) >>,
                    << F(0), F(0), F(-1), F(0) >>, << F(1), F(1), F(0), F(0) >> }

MatInputs ==
    UNION { [1..n -> MatRows(n)] : n \in {2, 3, 4} }

InitMat ==
    /\ RasterIdle
    /\ BaryIdle
    /\ ClipIdle
    /\ ShadowIdle
    /\ matIn \in MatInputs
    /\ matOut = NoMat
    /\ TexIdle
    /\ FrameIdle
    /\ RleIdle

\* det(), adjugate() and invert() of one matrix
MatCall ==
    /\ ~matOut.done
    /\ matOut' = [done |-> TRUE,
                  det |-> det(matIn),
                  adj |-> adjugate(matIn),
                  tmp |-> InvertDivisor(adjugate(matIn), matIn),
                  inv |-> invert(matIn)]
    /\ UNCHANGED <<rasterVars, baryVars, clipVars, shadowVars, matIn, texVars, frameVars, rleVars>>

NextMat == MatCall

SpecMat == InitMat /\ [][NextMat]_vars

\* the determinant as the sum over the permutations p of sign(p) times the
\* product of the entries m[i][p[i]]
Inversions(p) == Cardinality({ ij \in (1..Len(p)) \X (1..Len(p)) :
                                 ij[1] < ij[2] /\ p[ij[1]] > p[ij[2]] })

RECURSIVE ProductAlong(_, _, _)
ProductAlong(m, p, i) ==
    IF i = 0 THEN F(1) ELSE FMul(ProductAlong(m, p, i - 1), m[i][p[i]])

RECURSIVE SumOver(_, _)
SumOver(m, ps) ==
    IF ps = {} THEN F(0)
    ELSE LET p == CHOOSE q \in ps : TRUE
         IN  FAdd(SumOver(m, ps \ {p}),
                  FMul(F(IF Inversions(p) % 2 = 1 THEN -1 ELSE 1),
                       ProductAlong(m, p, Len(p))))

Leibniz(m) == SumOver(m, Perms([i \in 1..Len(m) |-> i]))

ScaledIdentity(n, d) == [i \in 1..n |-> [j \in 1..n |-> IF i = j THEN d ELSE F(0)]]

\* C18: for a square matrix M of size 2, 3 or 4 whose determinant is not
\* zero, M * M.invert() is the identity, M times the transposed matrix of
\* cofactors is det(M) times the identity, and the divisor of
\* invert_transpose is det(M).
C18_InverseIsInverse ==
    (matOut.done /\ Leibniz(matIn) # F(0)) =>
       /\ MatMul(matIn, matOut.inv) = identity(Len(matIn))
       /\ MatMul(matIn, transpose(matOut.adj))
            = ScaledIdentity(Len(matIn), Leibniz(matIn))
       /\ matOut.tmp = Leibniz(matIn)
       /\ matOut.det = Leibniz(matIn)

C18_Witness ==
    /\ matOut.done
    /\ Len(matIn) = 4
    /\ Leibniz(matIn) \notin { F(0), F(1), F(-1) }
    /\ MatMul(matIn, matOut.inv) = identity(4)
    /\ matOut.inv # matIn

---------------------------------------------------------------------------
(* the texture maps of a Model                                             *)

\* TGAColor(p, bpp): the bpp bytes at offset, the other channels 0
ColorAt(img, offset) ==
    [bgra |-> [i \in 1..4 |-> IF i <= img.bytespp THEN img.data[offset + i] ELSE 0],
     bytespp |-> img.bytespp]

\* TGAImage::get
Get(img, x, y) ==
    IF Len(img.data) = 0 \/ x < 0 \/ y < 0 \/ x >= img.width \/ y >= img.height
    THEN DefaultColor
    ELSE ColorAt(img, (x + y * img.width) * img.bytespp)

\* map.get(uvf[0] * map.get_width(), uvf[1] * map.get_height()): the float
\* products are converted to the int arguments of get
Sample(img, uvf) ==
    Get(img, FInt(FMul(uvf[1], F(img.width))), FInt(FMul(uvf[2], F(img.height))))

\* TGAColor::rgb
rgb(c) == << F(c.bgra[3]), F(c.bgra[2]), F(c.bgra[1]) >>

diffuse(img, uvf) == Sample(img, uvf)

\* c[i] / 255. * 2 - 1
Unpack(channel) == FSub(FMul(FDiv(F(channel), F(255)), F(2)), F(1))

\* Model::normal of the colour sampled: res[2 - i] = c[i] / 255. * 2 - 1
NormalOf(c) == << Unpack(c.bgra[3]), Unpack(c.bgra[2]), Unpack(c.bgra[1]) >>

normal(img, uvf) == NormalOf(Sample(img, uvf))

specular(img, uvf) == F(Sample(img, uvf).bgra[1])

\* a map that was not loaded, a 2 x 2 RGB map, a 2 x 1 grayscale map and a
\* 1 x 2 RGBA map
TexImages ==
    { EmptyImage,
      [data |-> << 10, 20, 30, 40, 50, 60, 70, 80, 90, 100, 110, 120 >>,
       width |-> 2, height |-> 2, bytespp |-> 3],
      [data |-> << 128, 255 >>, width |-> 2, height |-> 1, bytespp |-> 1],
      [data |-> << 255, 128, 0, 255, 1, 2, 3, 4 >>,
       width |-> 1, height |-> 2, bytespp |-> 4] }

\* u and v: inside [0, 1), on its ends and outside it
TexCoords == { Q(-3, 2), Q(-1, 2), Q(-1, 4), F(0), Q(1, 4), Q(1, 2), Q(3, 4), F(1),
               Q(3, 2) }

TexInputs == { [img |-> img, uv |-> << u, v >>] :
                 img \in TexImages, u \in TexCoords, v \in TexCoords }

InitTex ==
    /\ RasterIdle
    /\ BaryIdle
    /\ ClipIdle
    /\ ShadowIdle
    /\ MatIdle
    /\ texIn \in TexInputs
    /\ texOut = NoTex
    /\ FrameIdle
    /\ RleIdle

\* the three samplers of a Model called with one uv
TexCall ==
    /\ ~texOut.done
    /\ texOut' = [done |-> TRUE,
                  diffuse |-> diffuse(texIn.img, texIn.uv),
                  normal |-> normal(texIn.img, texIn.uv),
                  specular |-> specular(texIn.img, texIn.uv)]
    /\ UNCHANGED <<rasterVars, baryVars, clipVars, shadowVars, matVars, texIn, frameVars, rleVars>>

NextTex == TexCall

SpecTex == InitTex /\ [][NextTex]_vars

\* the map has no pixel data
MissingMap == Len(texIn.img.data) = 0

\* the uv maps to a pixel outside the image: u * width or v * height, its
\* fraction dropped, is no column or no row of the image
MapsOutside ==
    \/ FInt(FMul(texIn.uv[1], F(texIn.img.width))) \notin 0..(texIn.img.width - 1)
    \/ FInt(FMul(texIn.uv[2], F(texIn.img.height))) \notin 0..(texIn.img.height - 1)

\* C19: sampling a map that has no pixel data, at any uv, or any map at a uv
\* that maps outside the image, returns the zero default: colour (0,0,0),
\* specular 0 and normal (0,0,0).
C19_ZeroDefault ==
    (texOut.done /\ (MissingMap \/ MapsOutside)) =>
       /\ rgb(texOut.diffuse) = << F(0), F(0), F(0) >>
       /\ texOut.specular = F(0)
       /\ texOut.normal = << F(0), F(0), F(0) >>

---------------------------------------------------------------------------
(* the two passes of a frame: shadowMapping() and PhongShading()           *)

MaxFaces == 2         \* faces of the models of a frame

\* what homogeneousClip can return for a triangle on one axis
ClipSizes == 0..5

FaceKinds == [front : BOOLEAN, size : ClipSizes]

FrameInputs == UNION { [1..n -> FaceKinds] : n \in 1..MaxFaces }

otherVars == <<rasterVars, baryVars, clipVars, shadowVars, matVars, texVars, rleVars>>

InitFrame ==
    /\ RasterIdle
    /\ BaryIdle
    /\ ClipIdle
    /\ ShadowIdle
    /\ MatIdle
    /\ TexIdle
    /\ RleIdle
    /\ faces \in FrameInputs
    /\ frame = FrameStart

\* variant: main hands the lit pass's buffers to both passes
TargetsShared(pass) == { "zBuffer", "colorBuffer" }

\* the buffers main hands to the pass for triangle() to write, and the
\* buffer the fragment stage of the pass reads
Targets(pass) ==
    IF pass = "shadow" THEN { "shadowZBuffer", "shadowColorBuffer" }
    ELSE { "zBuffer", "colorBuffer" }

Sources(pass) == IF pass = "lit" THEN { "shadowZBuffer" } ELSE {}

\* variant: the loop leaves out the buffers of the shadow pass
FilledLitOnly == { "zBuffer", "colorBuffer" }

\* the buffers main's loop fills, every slot of each: the depth buffers with
\* -FLT_MAX, the colour buffers with (0, 0, 0)
Filled == { "zBuffer", "colorBuffer", "shadowZBuffer", "shadowColorBuffer" }

\* main: the loop that fills the buffers
InitBuffers ==
    /\ frame.pass = "init"
    /\ frame' = [frame EXCEPT !.pass = "shadow", !.ready = Filled]
    /\ UNCHANGED <<otherVars, faces>>

\* vertex(nthvert, ...) of the pass's shader for vertex vert of the face:
\* set_col(nthvert, ...) on its varying matrices
RunVertex(st, nthvert, vert) ==
    [st EXCEPT !.varying[nthvert] = [pass |-> st.pass, face |-> st.face, vert |-> vert],
               !.written = Append(st.written, nthvert)]

\* the vertices of the j-th triangle of the fan: clipped[0], clipped[j],
\* clipped[j + 1]
FanVertices(j) == << 0, j, j + 1 >>

\* variant: vertex 0 of the fan is run once per face, not once per triangle
VertexStageHoisted(st, verts) ==
    IF verts[2] = 1
    THEN RunVertex(RunVertex(RunVertex(st, 0, verts[1]), 1, verts[2]), 2, verts[3])
    ELSE RunVertex(RunVertex(st, 1, verts[2]), 2, verts[3])

\* the three vertex-stage calls before a triangle() call
VertexStage(st, verts) ==
    RunVertex(RunVertex(RunVertex(st, 0, verts[1]), 1, verts[2]), 2, verts[3])

\* the entry of a triangle() call: the pass, the face, whether the face
\* passed the backface test and was clipped before the call, the varying
\* state the fragment stage reads, the vertex-stage calls since the previous
\* triangle() call, and the buffers filled, written and read
EntryOf(st) ==
    [pass |-> st.pass, face |-> st.face,
     culled |-> st.culled, clipped |-> st.clipped,
     varying |-> st.varying, written |-> st.written,
     ready |-> st.ready, writes |-> Targets(st.pass), reads |-> Sources(st.pass)]

\* triangle(screenCoords, shader, colorBuffer, zBuffer, ...) and its return
TriangleCall(st) ==
    [st EXCEPT !.log = Append(st.log, EntryOf(st)),
               !.written = <<>>,
               !.wrote = [b \in Buffers |->
                            IF b \in Targets(st.pass) THEN st.wrote[b] + 1
                            ELSE st.wrote[b]]]

\* the face loop goes to its next face: the end of the body or a continue
NextFace(st) ==
    [st EXCEPT !.face = st.face + 1,
               !.step = IF st.pass = "shadow" THEN "vertex" ELSE "cull",
               !.j = 1, !.culled = FALSE, !.clipped = FALSE]

\* shadowMapping, one face: the three DepthShader::vertex calls, then
\* triangle(); the body of the loop holds no test and no clipper call
ShadowFace ==
    /\ frame.pass = "shadow"
    /\ frame.face <= Len(faces)
    /\ frame' = NextFace(TriangleCall(VertexStage(frame, FanVertices(1))))
    /\ UNCHANGED <<otherVars, faces>>

\* PhongShading creates the model's Shader and assigns its uniform fields:
\* uLightPos = lightPos and the others
SetUp == [lightPos |-> "lightPos", lightSets |-> 1, tangent |-> 0, tangentSets |-> 0]

\* shadowMapping returns and main calls PhongShading, which sets up the
\* shader of the model
StartLit ==
    /\ frame.pass = "shadow"
    /\ frame.face > Len(faces)
    /\ frame' = [frame EXCEPT !.pass = "lit", !.face = 1, !.step = "cull",
                              !.varying = [c \in 0..2 |-> NoColumn],
                              !.uniform = SetUp]
    /\ UNCHANGED <<otherVars, faces>>

\* if (n.z <= 0.0f) continue
CullTest(face) == ~face.front

\* PhongShading, the backface test of one face
LitCull ==
    /\ frame.pass = "lit" /\ frame.step = "cull"
    /\ frame.face <= Len(faces)
    /\ frame' = IF CullTest(faces[frame.face]) THEN NextFace(frame)
                ELSE [frame EXCEPT !.step = "clip", !.culled = ~CullTest(faces[frame.face])]
    /\ UNCHANGED <<otherVars, faces>>

\* variant: the size test lets polygons of two vertices through
TooFewLoose(size) == size < 2

\* if (clipped.size() < 3) continue
TooFew(size) == size < 3

\* PhongShader.uTangent = ...; PhongShader.uBitangent = ... for the face
SetTangent(u, face) == [u EXCEPT !.tangent = face, !.tangentSets = u.tangentSets + 1]

\* PhongShading: homogeneousClip(original, clipped, 2), then the size test,
\* then the tangent and bitangent of the face
LitClip ==
    /\ frame.pass = "lit" /\ frame.step = "clip"
    /\ frame' = IF TooFew(faces[frame.face].size) THEN NextFace(frame)
                ELSE [frame EXCEPT !.step = "raster", !.clipped = TRUE, !.j = 1,
                                   !.uniform = SetTangent(frame.uniform, frame.face)]
    /\ UNCHANGED <<otherVars, faces>>

\* the condition of the fan loop after ++j: j < clipped.size() - 1
FanContinues(j, size) == j < size - 1

\* Shader::fragment past its guard: Vec3f lightDir = uLightPos.normalize(),
\* and vec::normalize assigns the scaled vector to the vector it is called on.
\* hit: some fragment of the triangle gets that far
LitFragments(st, hit) ==
    IF hit THEN [st EXCEPT !.uniform.lightPos = "lightPos / norm"] ELSE st

\* PhongShading: the body of the fan loop for the sub-triangle (0, j, j + 1)
\* of the clipped face: three Shader::vertex calls, then triangle()
LitTriangle ==
    /\ frame.pass = "lit" /\ frame.step = "raster"
    /\ \E hit \in BOOLEAN :
          frame' = IF FanContinues(frame.j + 1, faces[frame.face].size)
                   THEN [LitFragments(
                            TriangleCall(VertexStage(frame, FanVertices(frame.j))), hit)
                           EXCEPT !.j = frame.j + 1]
                   ELSE NextFace(LitFragments(
                            TriangleCall(VertexStage(frame, FanVertices(frame.j))), hit))
    /\ UNCHANGED <<otherVars, faces>>

\* PhongShading returns
EndLit ==
    /\ frame.pass = "lit" /\ frame.step = "cull"
    /\ frame.face > Len(faces)
    /\ frame' = [frame EXCEPT !.pass = "done"]
    /\ UNCHANGED <<otherVars, faces>>

NextFrame ==
    InitBuffers \/ ShadowFace \/ StartLit \/ LitCull \/ LitClip \/ LitTriangle \/ EndLit

SpecFrame == InitFrame /\ [][NextFrame]_vars

\* C20: in the shadow pass and in the lit pass, every triangle() call is for
\* a face that passed the backface test and was clipped by homogeneousClip
\* before the call.
C20_CulledAndClippedFirst ==
    \A i \in 1..Len(frame.log) : frame.log[i].culled /\ frame.log[i].clipped

\* the triangle() calls of the lit pass for face f, in order: their indices
\* in the log
LitCalls(f) ==
    { i \in 1..Len(frame.log) : frame.log[i].pass = "lit" /\ frame.log[i].face = f }

\* the vertices of the clipped polygon the call's three vertex-stage calls ran on
VertsOf(e) == << e.varying[0].vert, e.varying[1].vert, e.varying[2].vert >>

\* how many calls of the lit pass for the face of call i came up to call i
RankOf(i) == Cardinality({ k \in LitCalls(frame.log[i].face) : k <= i })

\* C21: in the lit pass a face whose clipped polygon has n vertices causes
\* max(0, n - 2) triangle() calls, the j-th on vertices (v0, vj, vj+1); a face
\* clipped to fewer than 3 vertices causes no vertex-stage call, no
\* triangle() call and no buffer write.
C21_FanPerFace ==
    /\ \A i \in 1..Len(frame.log) :
          frame.log[i].pass = "lit" =>
             /\ VertsOf(frame.log[i]) = << 0, RankOf(i), RankOf(i) + 1 >>
             /\ RankOf(i) <= faces[frame.log[i].face].size - 2
             /\ frame.log[i].written = << 0, 1, 2 >>
    /\ \A f \in 1..Len(faces) :
          (faces[f].front /\ (frame.pass = "done" \/ frame.face > f)
             /\ frame.pass \in {"lit", "done"}) =>
             Cardinality(LitCalls(f))
                = IF faces[f].size >= 2 THEN faces[f].size - 2 ELSE 0
    /\ \A f \in 1..Len(faces) : faces[f].size < 3 => LitCalls(f) = {}
    /\ frame.written = <<>>
    /\ \A b \in Buffers :
          frame.wrote[b]
             = Cardinality({ i \in 1..Len(frame.log) : b \in frame.log[i].writes })

C21_Witness ==
    /\ frame.pass = "done"
    /\ \E f \in 1..Len(faces) :
          faces[f].front /\ faces[f].size = 5 /\ Cardinality(LitCalls(f)) = 3
    /\ \E f \in 1..Len(faces) :
          faces[f].front /\ faces[f].size = 2 /\ LitCalls(f) = {}

\* the vertices of the face that call i rasterizes: the face's three vertices
\* in the shadow pass, those of the fan triangle in the lit pass
TriangleOf(i) ==
    IF frame.log[i].pass = "shadow" THEN << 0, 1, 2 >>
    ELSE << 0, RankOf(i), RankOf(i) + 1 >>

\* C22: at every triangle() call, where the fragment stages run, column c of
\* the shader's varying state was written by the vertex stage for vertex c of
\* that triangle, and columns 0, 1, 2 were each written once since the
\* previous triangle() call returned.
C22_VaryingOfThisTriangle ==
    \A i \in 1..Len(frame.log) :
       /\ \A c \in 0..2 :
             frame.log[i].varying[c]
                = [pass |-> frame.log[i].pass, face |-> frame.log[i].face,
                   vert |-> TriangleOf(i)[c + 1]]
       /\ \A c \in 0..2 :
             Cardinality({ k \in 1..Len(frame.log[i].written) :
                             frame.log[i].written[k] = c }) = 1

C22_Witness ==
    \E i, k \in 1..Len(frame.log) :
       /\ frame.log[i].pass = "shadow"
       /\ frame.log[k].pass = "lit" /\ RankOf(k) = 2
       /\ frame.log[k].varying[2].vert = 3

\* C23: every field of the shader's uniform state is assigned once per model
\* per pass and no vertex-stage or fragment-stage call changes it: in the lit
\* pass uLightPos holds the value it was set up with, and uLightPos, uTangent
\* and uBitangent were assigned at most once.
C23_UniformsReadOnly ==
    frame.pass \in {"lit", "done"} =>
       /\ frame.uniform.lightPos = "lightPos"
       /\ frame.uniform.lightSets = 1
       /\ frame.uniform.tangentSets <= 1

\* C24: at every triangle() call of either pass the colour, depth and
\* shadow-depth buffers have been filled, and before every triangle() call of
\* the lit pass, inside which its fragment stages run, the shadow pass has
\* rasterized every face.
C24_FilledThenShadowThenLit ==
    \A i \in 1..Len(frame.log) :
       /\ { "zBuffer", "colorBuffer", "shadowZBuffer" } \subseteq frame.log[i].ready
       /\ frame.log[i].writes \subseteq frame.log[i].ready
       /\ frame.log[i].pass = "lit" =>
             \A f \in 1..Len(faces) :
                \E k \in 1..(i - 1) :
                   frame.log[k].pass = "shadow" /\ frame.log[k].face = f

C24_Witness ==
    /\ frame.pass = "done"
    /\ Len(faces) = MaxFaces
    /\ \E i \in 1..Len(frame.log) : frame.log[i].pass = "lit"
    /\ frame.log[1].pass = "shadow" /\ frame.log[1].ready = Buffers

CallsOf(pass) == { i \in 1..Len(frame.log) : frame.log[i].pass = pass }

\* C25: the triangle() calls of the lit pass write neither shadow buffer and
\* read the shadow depth buffer, those of the shadow pass write neither the
\* colour nor the depth buffer of the lit pass; a buffer of one pass was
\* written as often as that pass called triangle().
C25_DisjointBuffers ==
    /\ \A i \in CallsOf("lit") :
          /\ frame.log[i].writes \cap { "shadowZBuffer", "shadowColorBuffer" } = {}
          /\ frame.log[i].reads = { "shadowZBuffer" }
    /\ \A i \in CallsOf("shadow") :
          frame.log[i].writes \cap { "zBuffer", "colorBuffer" } = {}
    /\ frame.wrote["shadowZBuffer"] = Cardinality(CallsOf("shadow"))
    /\ frame.wrote["shadowColorBuffer"] = Cardinality(CallsOf("shadow"))
    /\ frame.wrote["zBuffer"] = Cardinality(CallsOf("lit"))
    /\ frame.wrote["colorBuffer"] = Cardinality(CallsOf("lit"))

C25_Witness ==
    /\ frame.pass = "done"
    /\ frame.wrote["shadowZBuffer"] = MaxFaces
    /\ frame.wrote["zBuffer"] > frame.wrote["shadowZBuffer"]

\* the depth the shadow buffer holds at the texel of tap o
StoredAt(o) == shadowIn.buf[TexelAt(o)[2] * Width + TexelAt(o)[1]]

\* C26: a tap in bounds increments the in-shadow counter only when the depth
\* stored at its texel is greater than the fragment's light-space depth by
\* more than the bias 0.005, and never when the two depths are equal.
C26_BiasedComparison ==
    shadowOut.done =>
       /\ \A o \in shadowOut.taps :
             /\ TexelAt(o) \in Pixels
             /\ FLess(Q(5, 1000), FSub(StoredAt(o), shadowIn.pos[3]))
       /\ \A o \in ((-2)..1) \X ((-2)..1) :
             (TexelAt(o) \in Pixels /\ StoredAt(o) = shadowIn.pos[3])
                => o \notin shadowOut.taps

\* a fragment of the receiver with a tap on a texel the receiver wrote, which
\* is not counted, and a tap on a texel the occluder wrote, which is
C26_Witness ==
    /\ shadowOut.done
    /\ \E o \in ((-2)..1) \X ((-2)..1) :
          /\ TexelAt(o) \in Pixels
          /\ StoredAt(o) = shadowIn.pos[3]
          /\ o \notin shadowOut.taps
    /\ \E o \in shadowOut.taps :
          FLess(Q(5, 1000), FSub(StoredAt(o), shadowIn.pos[3]))

---------------------------------------------------------------------------
(* the rasterizer again                                                    *)

\* barMiddle of pixel p in the last triangle() call
LastMiddle(p) == MiddleOf(ScOf(LastCall), p[1], p[2])

\* C27: the barycentric weights triangle() passes to the fragment stage are
\* all non-negative: the pixel centre lies inside the triangle whenever one of
\* the pixel's sample points was accepted, with the 4-sample table and with
\* the single offset of the raster without anti-aliasing.
C27_MiddleInside ==
    calls # <<>> =>
       \A p \in Pixels : fragCount[p] >= 1 => ~BarReject(LastMiddle(p))

\* slot of sample q holds the colour and the depth that call number j stored
WrittenBy(j, q) ==
    /\ Covers(calls[j], q, cntSample)
    /\ Geom[calls[j]][cntSample].frag[q[1]]
    /\ colorBuffer[IdxOf(q, cntSample)] = TriInputs[calls[j]].col
    /\ zBuffer[IdxOf(q, cntSample)] = DepthAt(calls[j], q, cntSample)

\* slot of sample q is as main() filled it
Untouched(q) ==
    /\ zBuffer[IdxOf(q, cntSample)] = Sentinel
    /\ colorBuffer[IdxOf(q, cntSample)] = Black

\* C28: after any sequence of triangle() calls on fresh buffers every slot
\* holds the colour and the depth of one and the same call, or the sentinel
\* depth together with the initial colour.
C28_ColourWithDepth ==
    \A q \in Samples(cntSample) :
       \/ Untouched(q)
       \/ /\ zBuffer[IdxOf(q, cntSample)] # Sentinel
          /\ \E j \in 1..Len(calls) : WrittenBy(j, q)

\* two calls have run; one slot holds the first call's pair, one the second
\* call's pair, and one is still as it was filled
C28_Witness ==
    /\ Len(calls) = 2
    /\ calls[1] # calls[2]
    /\ \E q1, q2, q3 \in Samples(cntSample) :
          /\ WrittenBy(1, q1) /\ ~WrittenBy(2, q1)
          /\ WrittenBy(2, q2) /\ ~WrittenBy(1, q2)
          /\ Covers(calls[1], q2, cntSample)
          /\ Untouched(q3)

\* the two calls made, taken in the other order on fresh buffers
Swapped == Replay(<<calls[2], calls[1]>>, cntSample)

\* two triangles whose shaders accept every pixel have been drawn
TwoAccepting ==
    /\ Len(calls) = 2
    /\ Accepting(calls[1], cntSample)
    /\ Accepting(calls[2], cntSample)

\* both triangles cover sample q
BothCover(q) == Covers(calls[1], q, cntSample) /\ Covers(calls[2], q, cntSample)

\* at sample q one of the two interpolated depths is strictly the greater
DepthsOrdered(q) ==
    \/ FLess(DepthAt(calls[1], q, cntSample), DepthAt(calls[2], q, cntSample))
    \/ FLess(DepthAt(calls[2], q, cntSample), DepthAt(calls[1], q, cntSample))

\* the claim as stated: the colour buffer of two accepting triangles is the
\* same in both orders, slots of equal depth included
C29_Original ==
    TwoAccepting => Swapped.color = colorBuffer

\* C29: for two triangles with accepting shaders the colour of a slot is the
\* same whichever triangle is drawn first, at every slot that only one of them
\* covers or where one interpolated depth is strictly greater than the other.
C29_ColourOrderFree ==
    TwoAccepting =>
       \E other \in {Swapped.color} :
          \A q \in Samples(cntSample) :
             (BothCover(q) => DepthsOrdered(q)) =>
                other[IdxOf(q, cntSample)] = colorBuffer[IdxOf(q, cntSample)]

\* two different accepting triangles overlap at a slot where the first drawn
\* is the closer one and keeps the slot; another slot is covered by one only
C29_Witness ==
    /\ TwoAccepting
    /\ calls[1] # calls[2]
    /\ \E q \in Samples(cntSample) :
          /\ BothCover(q)
          /\ FLess(DepthAt(calls[2], q, cntSample), DepthAt(calls[1], q, cntSample))
          /\ colorBuffer[IdxOf(q, cntSample)] = TriInputs[calls[1]].col
    /\ \E q \in Samples(cntSample) :
          /\ ~BothCover(q)
          /\ colorBuffer[IdxOf(q, cntSample)] = TriInputs[calls[2]].col

---------------------------------------------------------------------------
(* TGAImage::load_rle_data                                                 *)

MaxPackets == 2       \* RLE packets in the file after the header

\* the packet header bytes of the model: raw packets of 1..3 pixels and run
\* packets of 1..3 pixels
ChunkHeaders == { 0, 1, 2, 128, 129, 130 }

\* std::uint8_t arithmetic
U8(n) == n % 256

\* the pixels of a packet: chunkheader++ of a raw packet, chunkheader -= 127
\* of a run packet
ChunkPixels(chunkheader) ==
    IF chunkheader < 128 THEN U8(chunkheader + 1) ELSE U8(chunkheader - 127)

\* the pixels whose data the file holds for packet n: the file may end
\* before the last pixel of its last packet
PixelsHeld(n) ==
    IF n = Len(rleIn.stream)
    THEN ChunkPixels(rleIn.stream[n]) - rleIn.missing
    ELSE ChunkPixels(rleIn.stream[n])

\* size_t pixelcount = width * height
pixelcount == rleIn.width * rleIn.height

\* the size of data: nbytes of read_tga_file
nbytes == rleIn.bytespp * rleIn.width * rleIn.height

\* the positions of the bytespp bytes written from currentbyte on
PixelBytes(currentbyte) == currentbyte..(currentbyte + rleIn.bytespp - 1)

\* for (t < bytespp) data[currentbyte++] = colorbuffer.bgra[t], in packet n;
\* data.operator[] does not check the position
WritePixel(st, n) ==
    [st EXCEPT !.data = [b \in DOMAIN st.data |->
                           IF b - 1 \in PixelBytes(st.currentbyte)
                           THEN n ELSE st.data[b]],
               !.stray = @ \cup { b \in PixelBytes(st.currentbyte) : b >= nbytes },
               !.currentbyte = @ + rleIn.bytespp]

\* one pixel of a packet: the bytes are written, then currentpixel++ and the
\* test currentpixel > pixelcount.  A write outside data is undefined: the
\* run goes on, or ends there (crash)
CountPixel(st, n, crash) ==
    IF crash /\ \E b \in PixelBytes(st.currentbyte) : b >= nbytes
    THEN [st EXCEPT !.pc = "crash"]
    ELSE IF st.currentpixel + 1 > pixelcount
         THEN [WritePixel(st, n) EXCEPT !.currentpixel = @ + 1, !.pc = "false"]
         ELSE [WritePixel(st, n) EXCEPT !.currentpixel = @ + 1]

RECURSIVE RawLoop(_, _, _, _, _, _)
\* the loop of a raw packet from pixel i on: each pixel is read, then stored
RawLoop(st, i, count, held, n, crash) ==
    IF i >= count \/ st.pc # "loop" THEN st
    ELSE IF i >= held THEN [st EXCEPT !.pc = "false"]
    ELSE RawLoop(CountPixel(st, n, crash), i + 1, count, held, n, crash)

RECURSIVE RunLoop(_, _, _, _, _)
\* the loop of a run packet from copy i on
RunLoop(st, i, count, n, crash) ==
    IF i >= count \/ st.pc # "loop" THEN st
    ELSE RunLoop(CountPixel(st, n, crash), i + 1, count, n, crash)

\* while (currentpixel < pixelcount); return true
LoopTest(st) ==
    IF st.pc = "loop" /\ ~(st.currentpixel < pixelcount)
    THEN [st EXCEPT !.pc = "true"] ELSE st

RleDims == { [width |-> w, height |-> h, bytespp |-> b] :
               w \in {1, 2}, h \in {1, 2}, b \in {1, 3} }

RleStreams == UNION { [1..n -> ChunkHeaders] : n \in 0..MaxPackets }

RleInputs ==
    { [width |-> d.width, height |-> d.height, bytespp |-> d.bytespp,
       stream |-> s, missing |-> m] :
         d \in RleDims, s \in RleStreams, m \in {0, 1} }

\* read_tga_file has read the header and allocated data, filled with 0
InitRle ==
    /\ RasterIdle
    /\ BaryIdle
    /\ ClipIdle
    /\ ShadowIdle
    /\ MatIdle
    /\ TexIdle
    /\ FrameIdle
    /\ rleIn \in RleInputs
    /\ rleIn.stream = <<>> => rleIn.missing = 0
    /\ rle = [NoRle EXCEPT !.pc = "loop",
                           !.data = [b \in 1..(rleIn.bytespp * rleIn.width * rleIn.height) |-> 0]]

noRleVars == <<rasterVars, baryVars, clipVars, shadowVars, matVars, texVars, frameVars>>

\* chunkheader = in.get() fails: the file has no further packet
HeaderFail ==
    /\ rle.pc = "loop"
    /\ rle.next > Len(rleIn.stream)
    /\ rle' = [rle EXCEPT !.pc = "false"]
    /\ UNCHANGED <<noRleVars, rleIn>>

\* one round of the do loop on a raw packet
RawPacket ==
    /\ rle.pc = "loop"
    /\ rle.next <= Len(rleIn.stream)
    /\ rleIn.stream[rle.next] < 128
    /\ \E crash \in BOOLEAN :
          rle' = LoopTest(RawLoop([rle EXCEPT !.next = @ + 1], 0,
                                  ChunkPixels(rleIn.stream[rle.next]),
                                  PixelsHeld(rle.next), rle.next, crash))
    /\ UNCHANGED <<noRleVars, rleIn>>

\* one round of the do loop on a run packet; its colour is read first
RunPacket ==
    /\ rle.pc = "loop"
    /\ rle.next <= Len(rleIn.stream)
    /\ rleIn.stream[rle.next] >= 128
    /\ \E crash \in BOOLEAN :
          rle' = IF PixelsHeld(rle.next) < ChunkPixels(rleIn.stream[rle.next])
                 THEN [rle EXCEPT !.next = @ + 1, !.pc = "false"]
                 ELSE LoopTest(RunLoop([rle EXCEPT !.next = @ + 1], 0,
                                       ChunkPixels(rleIn.stream[rle.next]),
                                       rle.next, crash))
    /\ UNCHANGED <<noRleVars, rleIn>>

NextRle == HeaderFail \/ RawPacket \/ RunPacket

SpecRle == InitRle /\ [][NextRle]_vars

\* C30: for every sequence of RLE packets load_rle_data writes only inside
\* the width*height*bytespp bytes of data: a packet that carries the pixel
\* count past width*height makes it return false before a byte beyond the
\* buffer is written.
C30_WritesInside ==
    rle.stray = {} /\ rle.pc # "crash"

====
